---- MODULE Spec2Model ----
(***************************************************************************)
(* Runtime security probe (pkg/security/probe/probe.go): the discarder     *)
(* flush, the approver update and the per-record event handler.            *)
(***************************************************************************)
EXTENDS Integers, Sequences, FiniteSets, TLC

\* ------------------------------------------------------------------ bounds
\* FlushDiscarders invocations, numbered in the order in which they start
NumCallers == 2
\* distinct discarder keys: the first half are pids, the others inodes
MaxDiscarders == 2
\* distinct approvers an approver handler may return for one event type
MaxApprover == 2

Callers == 1..NumCallers
Pids == 1..(MaxDiscarders \div 2)
DiscInodes == 1..(MaxDiscarders - (MaxDiscarders \div 2))
ApproverIds == 1..MaxApprover

\* mount ids and inodes carried by the records (0 is the invalid value), the
\* pids of their process contexts, the discarder revisions of a released
\* mount, and the records handled in one run
MaxMount == 1
MaxInode == 1
MaxEvPid == 1
MaxRevision == 1
MaxEvents == 2

MountIds == 0..MaxMount
Inodes == 0..MaxInode
EvPids == 1..MaxEvPid
Revisions == 0..MaxRevision
DentryKeys == (1..MaxMount) \X (1..MaxInode)

VARIABLES
    \* Probe.config
    FlushDiscarderWindow, EnableDiscarders,
    \* Probe.flushingDiscarders (atomic int64) and the flushing_discarders map
    flushingDiscarders, kernelFlushing,
    \* the pid_discarders and inode_discarders kernel tables (their keys)
    pidDiscarders, inodeDiscarders,
    \* one FlushDiscarders invocation per caller: position, the closure's
    \* discardedInodes / discardedPids still to delete, the returned value
    fpc, discardedInodes, discardedPids, fret,
    \* the goroutine started by `go flushDiscarders()`
    gpc,
    \* the OnNewDiscarder call in progress (position, discarder)
    dpc, dKey,
    \* history: the value of the flag read by each caller's compare-and-swap;
    \* whether, since the last admitted call, no deletion failed and no handler
    \* put a discarder that no admitted call is still going to enumerate;
    \* whether the last reset of the kernel flag failed; whether the
    \* OnNewDiscarder call in progress read the flag during a flush
    casSaw, clean, lastResetFailed, dDuringFlush,
    \* Probe.approvers (event type -> recorded approvers) and the approvers
    \* applied in the kernel tables of each event type
    approvers, kernelApprovers,
    \* the SetApprovers call in progress: position, event type, the handler's
    \* newApprovers, those still to apply, the previous ones still to remove,
    \* the returned value
    apc, aType, newApprovers, toApply, previousApprovers, aret,
    \* history: the Apply and Remove calls of the current (or last) call, the
    \* approvers recorded when it started, whether some call has failed
    alog, aPrev, anyFailed,
    \* the perf buffer monitor's event count
    perfCount,
    \* the resolvers: the dentry cache (its keys), the mount resolver (mount
    \* id -> kind of the registered mount), the inode discarder revisions, the
    \* args/envs cache, the process cache (pid -> state of its entry, and the
    \* last credential update made to it)
    dentryCache, mounts, revisions, argsEnvs, procState, creds,
    \* the handleEvent call in progress: position, the record, the deferred call
    hpc, rec, deferred,
    \* history: the calls made for the current (or last) record, in order; the
    \* dentry keys cached since it started; the mount id of the record before
    \* it when that was a handled mount event (-1 otherwise); the dentry keys
    \* cached when it started
    hlog, addedNow, prevMount, cachedBefore,
    \* Start and Close: the position of Start, the cancelled context, the reorderer
    \* and monitor tasks counted by Probe.wg, the manager, the closed resolvers,
    \* the position of Close, the deletions a background flush still has to
    \* make, and (history) the task that used a resolver or a discarder table
    \* after the resolvers were closed
    spc, ctxCancelled, reorderer, monitorTask, managerState, resolversClosed, cpc,
    bgFlush, lateAccess,
    \* the records queued in the reorderer
    queued,
    \* NewProbe: its position, the detected kernel version, what it returns (none
    \* yet, a probe or an error), and whether the unsupported kernel was logged
    npc, kernelVersion, nret, osWarned,
    \* file trie of one ProcessActivityNode (activity_dump.go)
    Files, inserted, lastInsert, insertCount,
    \* one ActivityDump (activity_dump.go)
    ProcessActivityTree, CookiesNode, DifferentiateArgs, retained, released, dumpDone, nEvents, scenario, lastFind, profile,
    processedCount, addedRuntimeCount, addedSnapshotCount, tracedPIDsMap, lastCall,
    \* one call of ProcessActivityNode.Matches (activity_dump.go)
    mNode, mEntry, mMatchArgs, mResult,
    \* one ProcessCacheEntry (model.go)
    refCount, onRelease, cbSetAt, nRetain, nRelease, mixed, cbLog,
    \* the mutex of the ActivityDump and the goroutines that use the dump
    mutex, goroutine,
    \* the reorderer between the perf map and handleEvent (probe.go, NewReOrderer)
    roQueue, roHeap, roGeneration, roEmitted, roPushed, roArrived, roWindow,
    \* the live table of the process resolver (pid -> entry) as handleEvent feeds it
    entryCache, nextCookie, kernelCookie, lastRecord,
    \* ActivityDump.Matches: the dump's selector, the entry and the result of the call
    sel,
    \* the call of SelectProbes
    sp,
    \* the kernel map of traced pids
    tp,
    \* the counters of a dump under Insert and SendStats
    stats

flushCfg == << FlushDiscarderWindow, EnableDiscarders >>
flushOnd == << dpc, dKey, dDuringFlush >>
flushVars == << flushCfg, flushingDiscarders, kernelFlushing, pidDiscarders,
                inodeDiscarders, fpc, discardedInodes, discardedPids, fret,
                gpc, flushOnd, casSaw, clean, lastResetFailed >>

apprVars == << approvers, kernelApprovers, apc, aType, newApprovers, toApply,
               previousApprovers, aret, alog, aPrev, anyFailed >>

resolverVars == << dentryCache, mounts, revisions, argsEnvs, procState, creds >>
eventVars == << perfCount, resolverVars, hpc, rec, deferred, hlog,
                addedNow, prevMount, cachedBefore >>

closeVars == << spc, ctxCancelled, reorderer, monitorTask, managerState,
               resolversClosed, cpc, bgFlush, lateAccess, queued >>

newProbeVars == << npc, kernelVersion, nret, osWarned >>

trieVars == << Files, inserted, lastInsert, insertCount >>

dumpVars == << ProcessActivityTree, CookiesNode, DifferentiateArgs, retained, released, dumpDone, nEvents, scenario, lastFind, profile,
              processedCount, addedRuntimeCount, addedSnapshotCount, tracedPIDsMap, lastCall >>

matchVars == << mNode, mEntry, mMatchArgs, mResult >>

refVars == << refCount, onRelease, cbSetAt, nRetain, nRelease, mixed, cbLog >>

lockVars == << mutex, goroutine >>

reorderVars == << roQueue, roHeap, roGeneration, roEmitted, roPushed, roArrived, roWindow >>

resolverCacheVars == << entryCache, nextCookie, kernelCookie, lastRecord >>

selectorVars == << sel >>

selectProbesVars == << sp >>

tracedPidsVars == << tp >>

statsVars == << stats >>

vars == << flushVars, apprVars, eventVars, closeVars, newProbeVars, trieVars, dumpVars, matchVars, refVars, lockVars, reorderVars, resolverCacheVars, selectorVars, selectProbesVars, tracedPidsVars, statsVars >>

\* what the steps of one component leave alone: the other components' state
notFlush == << apprVars, eventVars, closeVars, newProbeVars, trieVars, dumpVars, matchVars, refVars, lockVars, reorderVars, resolverCacheVars, selectorVars, selectProbesVars, tracedPidsVars, statsVars >>
notAppr == << flushVars, eventVars, closeVars, newProbeVars, trieVars, dumpVars, matchVars, refVars, lockVars, reorderVars, resolverCacheVars, selectorVars, selectProbesVars, tracedPidsVars, statsVars >>
notEvent == << flushVars, apprVars, closeVars, newProbeVars, trieVars, dumpVars, matchVars, refVars, lockVars, reorderVars, resolverCacheVars, selectorVars, selectProbesVars, tracedPidsVars, statsVars >>
notClose == << flushVars, apprVars, eventVars, newProbeVars, trieVars, dumpVars, matchVars, refVars, lockVars, reorderVars, resolverCacheVars, selectorVars, selectProbesVars, tracedPidsVars, statsVars >>
notNewProbe == << flushVars, apprVars, eventVars, closeVars, trieVars, dumpVars, matchVars, refVars, lockVars, reorderVars, resolverCacheVars, selectorVars, selectProbesVars, tracedPidsVars, statsVars >>
notTrie == << flushVars, apprVars, eventVars, closeVars, newProbeVars, dumpVars, matchVars, refVars, lockVars, reorderVars, resolverCacheVars, selectorVars, selectProbesVars, tracedPidsVars, statsVars >>
notDump == << flushVars, apprVars, eventVars, closeVars, newProbeVars, trieVars, matchVars, refVars, lockVars, reorderVars, resolverCacheVars, selectorVars, selectProbesVars, tracedPidsVars, statsVars >>
notMatch == << flushVars, apprVars, eventVars, closeVars, newProbeVars, trieVars, dumpVars, refVars, lockVars, reorderVars, resolverCacheVars, selectorVars, selectProbesVars, tracedPidsVars, statsVars >>
notRef == << flushVars, apprVars, eventVars, closeVars, newProbeVars, trieVars, dumpVars, matchVars, lockVars, reorderVars, resolverCacheVars, selectorVars, selectProbesVars, tracedPidsVars, statsVars >>
notLock == << flushVars, apprVars, eventVars, closeVars, newProbeVars, trieVars, dumpVars, matchVars, refVars, reorderVars, resolverCacheVars, selectorVars, selectProbesVars, tracedPidsVars, statsVars >>
notReorder == << flushVars, apprVars, eventVars, closeVars, newProbeVars, trieVars, dumpVars, matchVars, refVars, lockVars, resolverCacheVars, selectorVars, selectProbesVars, tracedPidsVars, statsVars >>
notResolver == << flushVars, apprVars, eventVars, closeVars, newProbeVars, trieVars, dumpVars, matchVars, refVars, lockVars, reorderVars, selectorVars, selectProbesVars, tracedPidsVars, statsVars >>
notSelector == << flushVars, apprVars, eventVars, closeVars, newProbeVars, trieVars, dumpVars, matchVars, refVars, lockVars, reorderVars, resolverCacheVars, selectProbesVars, tracedPidsVars, statsVars >>
notSelectProbes == << flushVars, apprVars, eventVars, closeVars, newProbeVars, trieVars, dumpVars, matchVars, refVars, lockVars, reorderVars, resolverCacheVars, selectorVars, tracedPidsVars, statsVars >>
notTracedPids == << flushVars, apprVars, eventVars, closeVars, newProbeVars, trieVars, dumpVars, matchVars, refVars, lockVars, reorderVars, resolverCacheVars, selectorVars, selectProbesVars, statsVars >>
notStats == << flushVars, apprVars, eventVars, closeVars, newProbeVars, trieVars, dumpVars, matchVars, refVars, lockVars, reorderVars, resolverCacheVars, selectorVars, selectProbesVars, tracedPidsVars >>

\* ------------------------------------------------- discarders: FlushDiscarders

\* the caller passed the compare-and-swap
Admitted(i) == fpc[i] \notin {"idle", "cas"} /\ fret[i] \notin {"already", "error"}

\* the caller has enumerated the inode (pid) table
EnumeratedInodes(i) == Admitted(i) /\ fpc[i] # "iterInodes"
EnumeratedPids(i) == Admitted(i) /\ fpc[i] \notin {"iterInodes", "iterPids"}

\* the flushDiscarders closure of caller i is running, inline or as a goroutine
Deleting(i) == fpc[i] = "flush" \/ gpc[i] = "run"

\* from the end of the enumeration to the last paced deletion
FlushInProgress == \E i \in Callers : Deleting(i)

\* no FlushDiscarders call is executing and no flush goroutine is running
Quiescent == \A i \in Callers : fpc[i] \in {"idle", "done"} /\ gpc[i] # "run"

FlushInit ==
    /\ FlushDiscarderWindow \in {0, 1}
    /\ EnableDiscarders \in BOOLEAN
    /\ flushingDiscarders = 0
    /\ kernelFlushing = 0
    /\ pidDiscarders = {}
    /\ inodeDiscarders = {}
    /\ fpc = [i \in Callers |-> "idle"]
    /\ discardedInodes = [i \in Callers |-> {}]
    /\ discardedPids = [i \in Callers |-> {}]
    /\ fret = [i \in Callers |-> "none"]
    /\ gpc = [i \in Callers |-> "none"]
    /\ dpc = "idle"
    /\ dKey = << "none", 0 >>
    /\ dDuringFlush = FALSE
    /\ casSaw = [i \in Callers |-> -1]
    /\ clean = FALSE
    /\ lastResetFailed = FALSE

\* lines 740-750: the call starts, looks the flag map up and puts 1 in it; an
\* error returns before the deferred unfreeze is registered
FlushFreeze(i) ==
    /\ fpc[i] = "idle"
    /\ \A j \in Callers : j < i => fpc[j] # "idle"
    /\ \E ok \in BOOLEAN :
        IF ok
        THEN /\ kernelFlushing' = 1
             /\ fpc' = [fpc EXCEPT ![i] = "cas"]
             /\ fret' = fret
        ELSE /\ fpc' = [fpc EXCEPT ![i] = "done"]
             /\ fret' = [fret EXCEPT ![i] = "error"]
             /\ UNCHANGED kernelFlushing
    /\ UNCHANGED notFlush
    /\ UNCHANGED << flushCfg, flushingDiscarders, pidDiscarders,
                    inodeDiscarders, discardedInodes, discardedPids, gpc,
                    flushOnd, casSaw, clean, lastResetFailed >>

\* a compare-and-swap that lets every caller through
FlushCASNoGuard(i) ==
    /\ fpc[i] = "cas"
    /\ \A j \in Callers : j < i => fpc[j] # "cas"
    /\ casSaw' = [casSaw EXCEPT ![i] = flushingDiscarders]
    /\ flushingDiscarders' = 1
    /\ fpc' = [fpc EXCEPT ![i] = "iterInodes"]
    /\ clean' = TRUE
    /\ UNCHANGED notFlush
    /\ UNCHANGED << flushCfg, kernelFlushing, pidDiscarders, inodeDiscarders,
                    discardedInodes, discardedPids, fret, gpc, flushOnd,
                    lastResetFailed >>

\* lines 761-766: the unfreeze is already deferred when the compare-and-swap
\* runs, so the rejected caller goes through it as well
\* (callers waiting at the compare-and-swap are interchangeable: the one with
\* the lowest index goes first)
FlushCAS(i) ==
    /\ fpc[i] = "cas"
    /\ \A j \in Callers : j < i => fpc[j] # "cas"
    /\ casSaw' = [casSaw EXCEPT ![i] = flushingDiscarders]
    /\ IF flushingDiscarders = 0
       THEN /\ flushingDiscarders' = 1
            /\ fpc' = [fpc EXCEPT ![i] = "iterInodes"]
            /\ clean' = TRUE
            /\ fret' = fret
       ELSE /\ fret' = [fret EXCEPT ![i] = "already"]
            /\ fpc' = [fpc EXCEPT ![i] = "unfreeze"]
            /\ UNCHANGED << flushingDiscarders, clean >>
    /\ UNCHANGED notFlush
    /\ UNCHANGED << flushCfg, kernelFlushing, pidDiscarders, inodeDiscarders,
                    discardedInodes, discardedPids, gpc, flushOnd,
                    lastResetFailed >>

\* lines 768-774: iterate the inode discarders
FlushIterateInodes(i) ==
    /\ fpc[i] = "iterInodes"
    /\ discardedInodes' = [discardedInodes EXCEPT ![i] = inodeDiscarders]
    /\ fpc' = [fpc EXCEPT ![i] = "iterPids"]
    /\ UNCHANGED notFlush
    /\ UNCHANGED << flushCfg, flushingDiscarders, kernelFlushing,
                    pidDiscarders, inodeDiscarders, discardedPids, fret, gpc,
                    flushOnd, casSaw, clean, lastResetFailed >>

\* the same with a `return nil` on "No discarder found" that skips the deferred
\* unfreeze
FlushIteratePidsNoDefer(i) ==
    /\ fpc[i] = "iterPids"
    /\ discardedPids' = [discardedPids EXCEPT ![i] = pidDiscarders]
    /\ IF Cardinality(discardedInodes[i]) + Cardinality(pidDiscarders) = 0
       THEN /\ fpc' = [fpc EXCEPT ![i] = "done"]
            /\ fret' = [fret EXCEPT ![i] = "nil"]
            /\ gpc' = gpc
       ELSE IF FlushDiscarderWindow # 0
       THEN /\ gpc' = [gpc EXCEPT ![i] = "run"]
            /\ fpc' = [fpc EXCEPT ![i] = "unfreeze"]
            /\ fret' = [fret EXCEPT ![i] = "nil"]
       ELSE /\ fpc' = [fpc EXCEPT ![i] = "flush"]
            /\ UNCHANGED << fret, gpc >>
    /\ UNCHANGED notFlush
    /\ UNCHANGED << flushCfg, flushingDiscarders, kernelFlushing,
                    pidDiscarders, inodeDiscarders, discardedInodes, flushOnd,
                    casSaw, clean, lastResetFailed >>

\* lines 776-822: iterate the pid discarders, return when there is none,
\* otherwise run flushDiscarders inline or start it as a goroutine and return
FlushIteratePids(i) ==
    /\ fpc[i] = "iterPids"
    /\ discardedPids' = [discardedPids EXCEPT ![i] = pidDiscarders]
    /\ IF Cardinality(discardedInodes[i]) + Cardinality(pidDiscarders) = 0
       THEN /\ fpc' = [fpc EXCEPT ![i] = "unfreeze"]
            /\ fret' = [fret EXCEPT ![i] = "nil"]
            /\ gpc' = gpc
       ELSE IF FlushDiscarderWindow # 0
       THEN /\ gpc' = [gpc EXCEPT ![i] = "run"]
            /\ fpc' = [fpc EXCEPT ![i] = "unfreeze"]
            /\ fret' = [fret EXCEPT ![i] = "nil"]
       ELSE /\ fpc' = [fpc EXCEPT ![i] = "flush"]
            /\ UNCHANGED << fret, gpc >>
    /\ UNCHANGED notFlush
    /\ UNCHANGED << flushCfg, flushingDiscarders, kernelFlushing,
                    pidDiscarders, inodeDiscarders, discardedInodes, flushOnd,
                    casSaw, clean, lastResetFailed >>

\* the loop of flushDiscarders is over once both lists are empty: the inline
\* call goes on to `return nil` and the deferred unfreeze, the goroutine ends
FlushLoopEnd(i, inodes, pids) ==
    IF inodes = {} /\ pids = {}
    THEN IF gpc[i] = "run"
         THEN /\ gpc' = [gpc EXCEPT ![i] = "done"]
              /\ UNCHANGED << fpc, fret >>
         ELSE /\ fpc' = [fpc EXCEPT ![i] = "unfreeze"]
              /\ fret' = [fret EXCEPT ![i] = "nil"]
              /\ UNCHANGED gpc
    ELSE UNCHANGED << fpc, fret, gpc >>

\* the same with a key whose deletion failed kept in the list for another try
FlushExpireInodeRetry(i) ==
    /\ Deleting(i)
    /\ discardedInodes[i] # {}
    /\ \E k \in discardedInodes[i], ok \in BOOLEAN :
        /\ inodeDiscarders' = IF ok THEN inodeDiscarders \ {k} ELSE inodeDiscarders
        /\ clean' = (clean /\ ok)
        /\ discardedInodes' = IF ok THEN [discardedInodes EXCEPT ![i] = @ \ {k}]
                              ELSE discardedInodes
        /\ FlushLoopEnd(i, discardedInodes'[i], discardedPids[i])
    /\ UNCHANGED notFlush
    /\ UNCHANGED << flushCfg, flushingDiscarders, kernelFlushing,
                    pidDiscarders, discardedPids, flushOnd, casSaw,
                    lastResetFailed >>

\* lines 793-802: expire one enumerated inode discarder; a failure is traced
\* and the loop goes on
FlushExpireInode(i) ==
    /\ Deleting(i)
    /\ discardedInodes[i] # {}
    /\ \E k \in discardedInodes[i], ok \in BOOLEAN :
        /\ inodeDiscarders' = IF ok THEN inodeDiscarders \ {k} ELSE inodeDiscarders
        /\ clean' = (clean /\ ok)
        /\ discardedInodes' = [discardedInodes EXCEPT ![i] = @ \ {k}]
        /\ FlushLoopEnd(i, discardedInodes[i] \ {k}, discardedPids[i])
    /\ UNCHANGED notFlush
    /\ UNCHANGED << flushCfg, flushingDiscarders, kernelFlushing,
                    pidDiscarders, discardedPids, flushOnd, casSaw,
                    lastResetFailed >>

\* lines 804-813: delete one enumerated pid discarder once the inodes are
\* done; deleting a key that is no longer in the map is an error as well
FlushDeletePid(i) ==
    /\ Deleting(i)
    /\ discardedInodes[i] = {}
    /\ discardedPids[i] # {}
    /\ \E k \in discardedPids[i] :
       \E ok \in (IF k \in pidDiscarders THEN BOOLEAN ELSE {FALSE}) :
        /\ pidDiscarders' = IF ok THEN pidDiscarders \ {k} ELSE pidDiscarders
        /\ clean' = (clean /\ ok)
        /\ discardedPids' = [discardedPids EXCEPT ![i] = @ \ {k}]
        /\ FlushLoopEnd(i, {}, discardedPids[i] \ {k})
    /\ UNCHANGED notFlush
    /\ UNCHANGED << flushCfg, flushingDiscarders, kernelFlushing,
                    inodeDiscarders, discardedInodes, flushOnd, casSaw,
                    lastResetFailed >>

\* line 753, run by the deferred unfreezeDiscarders: clear the atomic flag
FlushUnfreezeStore(i) ==
    /\ fpc[i] = "unfreeze"
    /\ flushingDiscarders' = 0
    /\ fpc' = [fpc EXCEPT ![i] = "unfreezePut"]
    /\ UNCHANGED notFlush
    /\ UNCHANGED << flushCfg, kernelFlushing, pidDiscarders, inodeDiscarders,
                    discardedInodes, discardedPids, fret, gpc, flushOnd,
                    casSaw, clean, lastResetFailed >>

\* lines 755-759: put 0 in the flag map; an error is logged only
FlushUnfreezePut(i) ==
    /\ fpc[i] = "unfreezePut"
    /\ \E ok \in BOOLEAN :
        /\ kernelFlushing' = IF ok THEN 0 ELSE kernelFlushing
        /\ lastResetFailed' = ~ok
    /\ fpc' = [fpc EXCEPT ![i] = "done"]
    /\ UNCHANGED notFlush
    /\ UNCHANGED << flushCfg, flushingDiscarders, pidDiscarders,
                    inodeDiscarders, discardedInodes, discardedPids, fret,
                    gpc, flushOnd, casSaw, clean >>

\* -------------------------------------------------- discarders: OnNewDiscarder

\* the discarders a rule evaluation may hand over: a pid, an inode, or an
\* event type that has no discarder handler
DiscarderInputs ==
    ({"pid"} \X Pids) \cup ({"inode"} \X DiscInodes) \cup {<< "nohandler", 0 >>}

\* the handler of allDiscarderHandlers: puts the discarder in its kernel table
DiscarderHandlerPids(k) ==
    IF k[1] = "pid" THEN pidDiscarders \cup {k[2]} ELSE pidDiscarders
DiscarderHandlerInodes(k) ==
    IF k[1] = "inode" THEN inodeDiscarders \cup {k[2]} ELSE inodeDiscarders

\* the discarder put now is one an admitted call has yet to enumerate
WillBeEnumerated(k) ==
    \E i \in Callers :
        /\ Admitted(i)
        /\ \/ k[1] = "pid" /\ ~EnumeratedPids(i)
           \/ k[1] = "inode" /\ ~EnumeratedInodes(i)

\* lines 599-611: the checks made before the handler is looked up
OnNewDiscarder(k) ==
    /\ dpc = "idle"
    /\ IF ~EnableDiscarders \/ flushingDiscarders = 1 \/ k[1] = "nohandler"
       THEN UNCHANGED << dpc, dKey, dDuringFlush >>
       ELSE /\ dpc' = "handler"
            /\ dKey' = k
            /\ dDuringFlush' = FlushInProgress
    /\ UNCHANGED notFlush
    /\ UNCHANGED << flushCfg, flushingDiscarders, kernelFlushing,
                    pidDiscarders, inodeDiscarders, fpc, discardedInodes,
                    discardedPids, fret, gpc, casSaw, clean, lastResetFailed >>

\* line 612: the handler runs and OnNewDiscarder returns
OnNewDiscarderHandle ==
    /\ dpc = "handler"
    /\ pidDiscarders' = DiscarderHandlerPids(dKey)
    /\ inodeDiscarders' = DiscarderHandlerInodes(dKey)
    /\ clean' = (clean /\ WillBeEnumerated(dKey))
    /\ dpc' = "idle"
    /\ dKey' = << "none", 0 >>
    /\ dDuringFlush' = FALSE
    /\ UNCHANGED notFlush
    /\ UNCHANGED << flushCfg, flushingDiscarders, kernelFlushing, fpc,
                    discardedInodes, discardedPids, fret, gpc, casSaw,
                    lastResetFailed >>

\* ------------------------------------------------------ approvers: SetApprovers

\* the event types SetApprovers is called for; those of allApproversHandlers
ApproverEventTypes == {"open", "unlink", "exec"}
HandledTypes == {"open", "unlink"}

\* activeApprovers.Sub: the receiver without the approvers of the argument
Sub(previous, new) == previous \ new

\* the approvers recorded for an event type (none when the map has no entry)
Recorded(et) == IF et \in DOMAIN approvers THEN approvers[et] ELSE {}

\* the first approver of a slice, kept here in increasing order
First(S) == CHOOSE a \in S : \A b \in S : a <= b

ApprInit ==
    /\ approvers = << >>
    /\ kernelApprovers = [et \in HandledTypes |-> {}]
    /\ apc = "idle"
    /\ aType = "none"
    /\ newApprovers = {}
    /\ toApply = {}
    /\ previousApprovers = {}
    /\ aret = "none"
    /\ alog = << >>
    /\ aPrev = {}
    /\ anyFailed = FALSE

\* lines 640-649: look the handler up (no handler: return nil) and let it
\* compute newApprovers; its error is logged and the call goes on
SetApprovers(et, new) ==
    /\ apc = "idle"
    /\ aType' = et
    /\ alog' = << >>
    /\ aPrev' = Recorded(et)
    /\ IF et \notin HandledTypes
       THEN /\ aret' = "nil"
            /\ newApprovers' = {}
            /\ toApply' = {}
            /\ apc' = "idle"
       ELSE /\ aret' = "none"
            /\ newApprovers' = new
            /\ toApply' = new
            /\ apc' = "apply"
    /\ UNCHANGED notAppr
    /\ UNCHANGED << approvers, kernelApprovers, previousApprovers, anyFailed >>

\* lines 651-656: apply the next new approver; an error returns it
SetApproversApply ==
    /\ apc = "apply"
    /\ toApply # {}
    /\ LET a == First(toApply) IN
       \E ok \in BOOLEAN :
        /\ alog' = Append(alog, << "Apply", a >>)
        /\ IF ok
           THEN /\ kernelApprovers' = [kernelApprovers EXCEPT ![aType] = @ \cup {a}]
                /\ toApply' = toApply \ {a}
                /\ UNCHANGED << apc, aret, anyFailed >>
           ELSE /\ apc' = "idle"
                /\ aret' = "error"
                /\ anyFailed' = TRUE
                /\ UNCHANGED << kernelApprovers, toApply >>
    /\ UNCHANGED notAppr
    /\ UNCHANGED << approvers, aType, newApprovers, previousApprovers, aPrev >>

\* a Sub step that already records the new approvers, before the removals
SetApproversSubRecord ==
    /\ apc = "apply"
    /\ toApply = {}
    /\ previousApprovers' =
         IF aType \in DOMAIN approvers THEN Sub(approvers[aType], newApprovers) ELSE {}
    /\ approvers' = [et \in DOMAIN approvers \cup {aType} |->
                        IF et = aType THEN newApprovers ELSE approvers[et]]
    /\ apc' = "remove"
    /\ UNCHANGED notAppr
    /\ UNCHANGED << kernelApprovers, aType, newApprovers, toApply,
                    aret, alog, aPrev, anyFailed >>

\* lines 658-659: the previous approvers of the event type, less the new ones
SetApproversSub ==
    /\ apc = "apply"
    /\ toApply = {}
    /\ previousApprovers' =
         IF aType \in DOMAIN approvers THEN Sub(approvers[aType], newApprovers) ELSE {}
    /\ apc' = "remove"
    /\ UNCHANGED notAppr
    /\ UNCHANGED << approvers, kernelApprovers, aType, newApprovers, toApply,
                    aret, alog, aPrev, anyFailed >>

\* a removal that does not wait for the new approvers to be applied
SetApproversRemoveEarly ==
    /\ apc \in {"apply", "remove"}
    /\ LET prev == IF apc = "apply" THEN Sub(Recorded(aType), newApprovers)
                   ELSE previousApprovers
       IN /\ prev # {}
          /\ alog' = Append(alog, << "Remove", First(prev) >>)
          /\ kernelApprovers' = [kernelApprovers EXCEPT ![aType] = @ \ {First(prev)}]
          /\ previousApprovers' = prev \ {First(prev)}
    /\ UNCHANGED notAppr
    /\ UNCHANGED << approvers, apc, aret, anyFailed, aType, newApprovers,
                    toApply, aPrev >>

\* lines 660-665: remove the next previous approver; an error returns it
SetApproversRemove ==
    /\ apc = "remove"
    /\ previousApprovers # {}
    /\ LET a == First(previousApprovers) IN
       \E ok \in BOOLEAN :
        /\ alog' = Append(alog, << "Remove", a >>)
        /\ IF ok
           THEN /\ kernelApprovers' = [kernelApprovers EXCEPT ![aType] = @ \ {a}]
                /\ previousApprovers' = previousApprovers \ {a}
                /\ UNCHANGED << apc, aret, anyFailed >>
           ELSE /\ apc' = "idle"
                /\ aret' = "error"
                /\ anyFailed' = TRUE
                /\ UNCHANGED << kernelApprovers, previousApprovers >>
    /\ UNCHANGED notAppr
    /\ UNCHANGED << approvers, aType, newApprovers, toApply, aPrev >>

\* a return that forgets to record the new approvers
SetApproversRecordNothing ==
    /\ apc = "remove"
    /\ previousApprovers = {}
    /\ apc' = "idle"
    /\ aret' = "nil"
    /\ UNCHANGED notAppr
    /\ UNCHANGED << approvers, kernelApprovers, aType, newApprovers, toApply,
                    previousApprovers, alog, aPrev, anyFailed >>

\* lines 668-669: record the new approvers and return nil
SetApproversRecord ==
    /\ apc = "remove"
    /\ previousApprovers = {}
    /\ approvers' = [et \in DOMAIN approvers \cup {aType} |->
                        IF et = aType THEN newApprovers ELSE approvers[et]]
    /\ apc' = "idle"
    /\ aret' = "nil"
    /\ UNCHANGED notAppr
    /\ UNCHANGED << kernelApprovers, aType, newApprovers, toApply,
                    previousApprovers, alog, aPrev, anyFailed >>

ApprNext ==
    \/ \E et \in ApproverEventTypes, new \in SUBSET ApproverIds : SetApprovers(et, new)
    \/ SetApproversApply
    \/ SetApproversSub
    \/ SetApproversRemove
    \/ SetApproversRecord

\* ------------------------------------------------------ records: handleEvent

\* event types whose records are handled without context decode (lines 314-351)
NoDispatchTypes == {"mount_released", "invalidate_dentry", "args_envs"}
\* event types that defer a dentry invalidation (lines 399-428, 444-454)
InvalidatingTypes == {"rmdir", "unlink", "rename", "link"}
\* event types that defer a credentials update (lines 496-513)
CredTypes == {"setuid", "setgid", "capset"}
\* "open" stands for the types whose case only decodes the payload (umount,
\* open, mkdir, chmod, chown, utimes, setxattr, removexattr, selinux, bpf,
\* mmap, mprotect, load_module, splice) or decodes it and looks a process up
\* (ptrace, signal); "unknown" for a type the switch does not know
DecodeOnlyTypes == {"open"}
EventTypes ==
    NoDispatchTypes \cup InvalidatingTypes \cup CredTypes \cup DecodeOnlyTypes
        \cup {"mount", "fork", "exec", "exit", "unload_module", "unknown"}

\* a record: its type, the decode that fails on it (none, header, contexts or
\* payload), and the fields of its payload and process context
Rec(t, f, rv, m, i, p, k, o, v) ==
    [typ |-> t, fail |-> f, retval |-> rv, mount |-> m, inode |-> i, pid |-> p,
     kthread |-> k, overlay |-> o, rev |-> v]

NoRec == Rec("none", "none", 0, 0, 0, 0, FALSE, FALSE, 0)

\* the decodes handleEvent attempts on a record of a type
FailPoints(t) ==
    {"header"}
        \cup (IF t \in NoDispatchTypes THEN {} ELSE {"contexts"})
        \cup (IF t \in {"exit", "unknown"} THEN {} ELSE {"payload"})

\* the records fed to handleEvent; a field the handler does not read for the
\* type is left at its zero value
Records ==
    UNION {{Rec(t, f, 0, 0, 0, 1, FALSE, FALSE, 0) : f \in FailPoints(t)} :
                    t \in EventTypes}
    \cup {Rec(t, "none", 0, m, i, 1, FALSE, FALSE, 0) :
            t \in InvalidatingTypes, m \in MountIds, i \in Inodes}
    \cup {Rec(t, "none", -1, 0, 0, 1, FALSE, FALSE, 0) : t \in InvalidatingTypes}
    \cup {Rec("mount", "none", 0, m, 0, 1, FALSE, o, 0) :
            m \in MountIds, o \in BOOLEAN}
    \cup {Rec("mount_released", "none", 0, m, 0, 0, FALSE, FALSE, v) :
            m \in MountIds, v \in Revisions}
    \cup {Rec("invalidate_dentry", "none", 0, m, i, 0, FALSE, FALSE, 0) :
            m \in MountIds, i \in Inodes}
    \cup {Rec("args_envs", "none", 0, 0, 0, p, FALSE, FALSE, 0) : p \in EvPids}
    \cup {Rec(t, "none", 0, 0, 0, p, k, FALSE, 0) :
            t \in {"fork", "exit"}, p \in EvPids, k \in BOOLEAN}
    \cup {Rec(t, "none", 0, 0, 0, p, FALSE, FALSE, 0) :
            t \in CredTypes \cup {"exec"}, p \in EvPids}
    \cup {Rec(t, "none", 0, 0, 0, 1, FALSE, FALSE, 0) :
            t \in DecodeOnlyTypes \cup {"unload_module", "unknown"}}

\* DentryResolver.DelCacheEntries: the cache without the paths of a mount
DelCacheEntries(cache, mountID) == {k \in cache : k[1] # mountID}

\* DentryResolver.DelCacheEntry: the cache without one (mount id, inode)
DelCacheEntry(cache, mountID, inode) == cache \ {<< mountID, inode >>}

\* Probe.invalidateDentry: a zero mount id or inode is logged and left alone
InvalidateDentry(cache, mountID, inode) ==
    IF mountID = 0 \/ inode = 0 THEN cache ELSE DelCacheEntry(cache, mountID, inode)

\* MountResolver.IsOverlayFS
IsOverlayFS(mountID) == mounts[mountID] = "overlay"

EventInit ==
    /\ perfCount = 0
    /\ dentryCache = {}
    /\ mounts = [m \in MountIds |-> "absent"]
    /\ revisions = [m \in MountIds |-> 0]
    /\ argsEnvs = {}
    /\ procState = [p \in EvPids |-> "absent"]
    /\ creds = [p \in EvPids |-> "none"]
    /\ hpc = "idle"
    /\ rec = NoRec
    /\ deferred = << >>
    /\ hlog = << >>
    /\ addedNow = {}
    /\ prevMount = -1
    /\ cachedBefore = {}

\* lines 298-301: handleEvent is called with the next record and zeroes the
\* event shared by all the calls
HandleZero ==
    /\ hpc = "idle"
    /\ perfCount < MaxEvents
    /\ hpc' = "header"
    /\ rec' = NoRec
    /\ deferred' = << >>
    /\ hlog' = << >>
    /\ addedNow' = {}
    /\ prevMount' = IF rec.typ = "mount" /\ rec.fail = "none" THEN rec.mount ELSE -1
    /\ cachedBefore' = dentryCache
    /\ UNCHANGED notEvent
    /\ UNCHANGED << perfCount, resolverVars >>

\* lines 303-311: decode the header (an error is logged and the record
\* dropped) and count the record in the perf buffer monitor
HandleHeader(r) ==
    /\ hpc = "header"
    /\ rec' = r
    /\ IF r.fail = "header"
       THEN /\ hpc' = "idle"
            /\ UNCHANGED << hlog, perfCount >>
       ELSE /\ hlog' = << "CountEvent" >>
            /\ perfCount' = perfCount + 1
            /\ hpc' = IF r.typ \in NoDispatchTypes THEN "nodispatch" ELSE "contexts"
    /\ UNCHANGED notEvent
    /\ UNCHANGED << resolverVars, deferred, addedNow, prevMount, cachedBefore >>

\* lines 314-351 with a context decode left in: the record goes on
HandleNoDispatchFallThrough ==
    /\ hpc = "nodispatch"
    /\ hpc' = "contexts"
    /\ UNCHANGED notEvent
    /\ UNCHANGED << perfCount, resolverVars, rec, deferred, hlog,
                    addedNow, prevMount, cachedBefore >>

\* lines 314-351: mount released, invalidate dentry and args/envs records are
\* decoded and handled here, and handleEvent returns
HandleNoDispatch ==
    /\ hpc = "nodispatch"
    /\ hpc' = "idle"
    /\ IF rec.fail = "payload"
       THEN UNCHANGED << resolverVars, hlog >>
       ELSE CASE rec.typ = "mount_released" ->
                    /\ dentryCache' = DelCacheEntries(dentryCache, rec.mount)
                    /\ revisions' = IF IsOverlayFS(rec.mount)
                                    THEN [revisions EXCEPT ![rec.mount] = rec.rev]
                                    ELSE revisions
                    /\ mounts' = [mounts EXCEPT ![rec.mount] = "absent"]
                    /\ hlog' = hlog \o << "DelCacheEntries" >>
                                \o (IF IsOverlayFS(rec.mount)
                                    THEN << "setRevision" >> ELSE << >>)
                                \o << "MountResolver.Delete" >>
                    /\ UNCHANGED << argsEnvs, procState, creds >>
              [] rec.typ = "invalidate_dentry" ->
                    /\ dentryCache' = InvalidateDentry(dentryCache, rec.mount, rec.inode)
                    /\ hlog' = Append(hlog, "invalidateDentry")
                    /\ UNCHANGED << mounts, revisions, argsEnvs, procState, creds >>
              [] rec.typ = "args_envs" ->
                    /\ argsEnvs' = argsEnvs \cup {rec.pid}
                    /\ hlog' = Append(hlog, "UpdateArgsEnvs")
                    /\ UNCHANGED << dentryCache, mounts, revisions, procState, creds >>
    /\ UNCHANGED notEvent
    /\ UNCHANGED << perfCount, rec, deferred, addedNow, prevMount, cachedBefore >>

\* lines 353-358: decode the process, span and container contexts; an error
\* is logged and the record dropped
HandleContexts ==
    /\ hpc = "contexts"
    /\ IF rec.fail = "contexts"
       THEN hpc' = "idle" /\ UNCHANGED hlog
       ELSE hpc' = "payload" /\ hlog' = Append(hlog, "unmarshalContexts")
    /\ UNCHANGED notEvent
    /\ UNCHANGED << perfCount, resolverVars, rec, deferred,
                    addedNow, prevMount, cachedBefore >>

\* the record is dropped: handleEvent returns from the payload switch
DropRecord ==
    /\ hpc' = "idle"
    /\ UNCHANGED << resolverVars, deferred, hlog >>

\* the rest of a step of the payload switch
PayloadFrame ==
    /\ UNCHANGED notEvent
    /\ UNCHANGED << perfCount, rec, addedNow, prevMount, cachedBefore >>

\* lines 361-383 without the bulk invalidation of the mount's dentry paths
HandleMountKeepCache ==
    /\ hpc = "payload" /\ rec.typ = "mount"
    /\ IF rec.fail = "payload"
       THEN DropRecord
       ELSE /\ \E ok \in BOOLEAN :
                mounts' = IF ok
                          THEN [mounts EXCEPT ![rec.mount] =
                                    IF rec.overlay THEN "overlay" ELSE "plain"]
                          ELSE mounts
            /\ hlog' = hlog \o << "MountResolver.Insert" >>
            /\ hpc' = "resolve"
            /\ UNCHANGED << dentryCache, revisions, argsEnvs, procState, creds, deferred >>
    /\ PayloadFrame

\* lines 361-383: a mount record is decoded, the mount is inserted in the
\* mount resolver (an error is logged) and the dentry paths cached under its
\* mount id are removed
HandleMount ==
    /\ hpc = "payload" /\ rec.typ = "mount"
    /\ IF rec.fail = "payload"
       THEN DropRecord
       ELSE /\ \E ok \in BOOLEAN :
                mounts' = IF ok
                          THEN [mounts EXCEPT ![rec.mount] =
                                    IF rec.overlay THEN "overlay" ELSE "plain"]
                          ELSE mounts
            /\ dentryCache' = DelCacheEntries(dentryCache, rec.mount)
            /\ hlog' = hlog \o << "MountResolver.Insert", "DelCacheEntries" >>
            /\ hpc' = "resolve"
            /\ UNCHANGED << revisions, argsEnvs, procState, creds, deferred >>
    /\ PayloadFrame

\* lines 399-428, 444-454 with the invalidation made at once, not deferred
HandleUnlinkLikeEager ==
    /\ hpc = "payload" /\ rec.typ \in InvalidatingTypes
    /\ IF rec.fail = "payload"
       THEN DropRecord
       ELSE /\ IF rec.retval >= 0
               THEN /\ dentryCache' = InvalidateDentry(dentryCache, rec.mount, rec.inode)
                    /\ hlog' = Append(hlog, "invalidateDentry")
               ELSE UNCHANGED << dentryCache, hlog >>
            /\ hpc' = "resolve"
            /\ UNCHANGED << mounts, revisions, argsEnvs, procState, creds, deferred >>
    /\ PayloadFrame

\* lines 399-428, 444-454: rmdir, unlink, rename and link records are decoded
\* and, when the syscall succeeded, the invalidation of the dentry is deferred
HandleUnlinkLike ==
    /\ hpc = "payload" /\ rec.typ \in InvalidatingTypes
    /\ IF rec.fail = "payload"
       THEN DropRecord
       ELSE /\ deferred' = IF rec.retval >= 0
                           THEN << "invalidateDentry", rec.mount, rec.inode >>
                           ELSE << >>
            /\ hpc' = "resolve"
            /\ UNCHANGED << resolverVars, hlog >>
    /\ PayloadFrame

\* lines 465-477: a fork record; kernel threads are ignored
HandleFork ==
    /\ hpc = "payload" /\ rec.typ = "fork"
    /\ IF rec.fail = "payload" \/ rec.kthread
       THEN DropRecord
       ELSE /\ procState' = [procState EXCEPT ![rec.pid] = "forked"]
            /\ creds' = [creds EXCEPT ![rec.pid] = "none"]
            /\ hlog' = hlog \o << "ApplyBootTime", "AddForkEntry" >>
            /\ hpc' = "resolve"
            /\ UNCHANGED << dentryCache, mounts, revisions, argsEnvs, deferred >>
    /\ PayloadFrame

\* lines 478-493 with the entry added to the resolver before its context is
\* resolved
HandleExecAddFirst ==
    /\ hpc = "payload" /\ rec.typ = "exec"
    /\ IF rec.fail = "payload"
       THEN DropRecord
       ELSE /\ procState' = [procState EXCEPT ![rec.pid] = "executed"]
            /\ creds' = [creds EXCEPT ![rec.pid] = "none"]
            /\ hlog' = hlog \o << "AddExecEntry", "ResolveNewProcessCacheEntryContext" >>
            /\ hpc' = "resolve"
            /\ UNCHANGED << dentryCache, mounts, revisions, argsEnvs, deferred >>
    /\ PayloadFrame

\* lines 478-493: an exec record
HandleExec ==
    /\ hpc = "payload" /\ rec.typ = "exec"
    /\ IF rec.fail = "payload"
       THEN DropRecord
       ELSE /\ procState' = [procState EXCEPT ![rec.pid] = "executed"]
            /\ creds' = [creds EXCEPT ![rec.pid] = "none"]
            /\ hlog' = hlog \o << "ResolveNewProcessCacheEntryContext", "AddExecEntry" >>
            /\ hpc' = "resolve"
            /\ UNCHANGED << dentryCache, mounts, revisions, argsEnvs, deferred >>
    /\ PayloadFrame

\* lines 494-495: an exit record has no payload to decode
HandleExit ==
    /\ hpc = "payload" /\ rec.typ = "exit"
    /\ hpc' = "resolve"
    /\ UNCHANGED << resolverVars, deferred, hlog >>
    /\ PayloadFrame

\* the ProcessResolver call a credentials record defers
CredUpdate(t) ==
    CASE t = "setuid" -> "UpdateUID" [] t = "setgid" -> "UpdateGID"
      [] t = "capset" -> "UpdateCapset"

\* the same with the update of the credentials made on the spot
HandleSetCredsNow ==
    /\ hpc = "payload" /\ rec.typ \in CredTypes
    /\ IF rec.fail = "payload"
       THEN DropRecord
       ELSE /\ creds' = [creds EXCEPT ![rec.pid] =
                            IF procState[rec.pid] \in {"forked", "executed"}
                            THEN CredUpdate(rec.typ) ELSE @]
            /\ hlog' = Append(hlog, CredUpdate(rec.typ))
            /\ hpc' = "resolve"
            /\ UNCHANGED << dentryCache, mounts, revisions, argsEnvs,
                            procState, deferred >>
    /\ PayloadFrame

\* lines 496-513: setuid, setgid and capset records defer the update of the
\* process entry's credentials
HandleSetCreds ==
    /\ hpc = "payload" /\ rec.typ \in CredTypes
    /\ IF rec.fail = "payload"
       THEN DropRecord
       ELSE /\ deferred' = << CredUpdate(rec.typ), rec.pid >>
            /\ hpc' = "resolve"
            /\ UNCHANGED << resolverVars, hlog >>
    /\ PayloadFrame

\* lines 384-398, 429-443, 455-464, 514-548, 553-567: the payload is decoded;
\* an error is logged and the record dropped
HandleDecodeOnly ==
    /\ hpc = "payload" /\ rec.typ \in DecodeOnlyTypes
    /\ IF rec.fail = "payload"
       THEN DropRecord
       ELSE hpc' = "resolve" /\ UNCHANGED << resolverVars, deferred, hlog >>
    /\ PayloadFrame

\* lines 549-552: an unload_module record; a decode error is logged and the
\* case ends without a return
HandleUnloadModule ==
    /\ hpc = "payload" /\ rec.typ = "unload_module"
    /\ hpc' = "resolve"
    /\ UNCHANGED << resolverVars, deferred, hlog >>
    /\ PayloadFrame

\* lines 568-571: an unsupported event type is logged and the record dropped
HandleUnsupported ==
    /\ hpc = "payload" /\ rec.typ = "unknown"
    /\ DropRecord
    /\ PayloadFrame

\* the same with DeleteEntry called on the spot instead of deferred
HandleResolveDeleteNow ==
    /\ hpc = "resolve"
    /\ IF rec.typ # "exit"
       THEN /\ hlog' = Append(hlog, "ResolveProcessCacheEntry")
            /\ hpc' = "dispatch"
            /\ UNCHANGED << deferred, resolverVars >>
       ELSE IF rec.kthread
            THEN hpc' = "idle" /\ UNCHANGED << hlog, deferred, resolverVars >>
            ELSE /\ hlog' = Append(hlog, "DeleteEntry")
                 /\ procState' = [procState EXCEPT ![rec.pid] =
                                     IF @ = "absent" THEN "absent" ELSE "exited"]
                 /\ hpc' = "dispatch"
                 /\ UNCHANGED << deferred, dentryCache, mounts, revisions,
                                 argsEnvs, creds >>
    /\ UNCHANGED notEvent
    /\ UNCHANGED << perfCount, rec, addedNow, prevMount, cachedBefore >>

\* lines 573-583: resolve the process cache entry of the event; for an exit
\* record, ignore kernel threads and defer the deletion of the entry
HandleResolve ==
    /\ hpc = "resolve"
    /\ IF rec.typ # "exit"
       THEN /\ hlog' = Append(hlog, "ResolveProcessCacheEntry")
            /\ hpc' = "dispatch"
            /\ UNCHANGED deferred
       ELSE IF rec.kthread
            THEN hpc' = "idle" /\ UNCHANGED << hlog, deferred >>
            ELSE /\ deferred' = << "DeleteEntry", rec.pid >>
                 /\ hpc' = "dispatch"
                 /\ UNCHANGED hlog
    /\ UNCHANGED notEvent
    /\ UNCHANGED << perfCount, resolverVars, rec, addedNow, prevMount, cachedBefore >>

\* lines 585, 238-247: DispatchEvent hands the event to the handler set by
\* SetEventHandler, then to the monitor; the rule evaluation resolves paths
\* and may put a dentry back in the cache (comment of line 406)
HandleDispatch ==
    /\ hpc = "dispatch"
    /\ \E added \in {{}} \cup {{k} : k \in DentryKeys} :
        /\ dentryCache' = dentryCache \cup added
        /\ addedNow' = addedNow \cup (added \ dentryCache)
    /\ hlog' = hlog \o << "HandleEvent", "ProcessEvent" >>
    /\ hpc' = "dequeue"
    /\ UNCHANGED notEvent
    /\ UNCHANGED << perfCount, mounts, revisions, argsEnvs, procState,
                    creds, rec, deferred, prevMount, cachedBefore >>

\* line 588 left out: handleEvent returns right after the dispatch
HandleDequeueSkipped ==
    /\ hpc = "dequeue"
    /\ hpc' = "return"
    /\ UNCHANGED notEvent
    /\ UNCHANGED << perfCount, resolverVars, rec, deferred, hlog,
                    addedNow, prevMount, cachedBefore >>

\* line 588: DequeueExited releases the exited entries that are old enough
HandleDequeue ==
    /\ hpc = "dequeue"
    /\ \E old \in SUBSET {p \in EvPids : procState[p] = "exited"} :
        /\ procState' = [p \in EvPids |-> IF p \in old THEN "absent" ELSE procState[p]]
        /\ creds' = [p \in EvPids |-> IF p \in old THEN "none" ELSE creds[p]]
    /\ hlog' = Append(hlog, "DequeueExited")
    /\ hpc' = "return"
    /\ UNCHANGED notEvent
    /\ UNCHANGED << perfCount, dentryCache, mounts, revisions, argsEnvs,
                    rec, deferred, addedNow, prevMount, cachedBefore >>

\* line 589: handleEvent returns and its deferred call, if any, runs
HandleReturn ==
    /\ hpc = "return"
    /\ hpc' = "idle"
    /\ IF deferred = << >>
       THEN UNCHANGED << resolverVars, hlog >>
       ELSE /\ hlog' = Append(hlog, deferred[1])
            /\ CASE deferred[1] = "invalidateDentry" ->
                    /\ dentryCache' = InvalidateDentry(dentryCache, deferred[2], deferred[3])
                    /\ UNCHANGED << procState, creds >>
                 [] deferred[1] = "DeleteEntry" ->
                    /\ procState' = [procState EXCEPT ![deferred[2]] =
                                        IF @ = "absent" THEN "absent" ELSE "exited"]
                    /\ UNCHANGED << dentryCache, creds >>
                 [] OTHER ->
                    /\ creds' = [creds EXCEPT ![deferred[2]] =
                                    IF procState[deferred[2]] \in {"forked", "executed"}
                                    THEN deferred[1] ELSE @]
                    /\ UNCHANGED << dentryCache, procState >>
            /\ UNCHANGED << mounts, revisions, argsEnvs >>
    /\ UNCHANGED notEvent
    /\ UNCHANGED << perfCount, rec, deferred, addedNow, prevMount, cachedBefore >>

EventNext ==
    \/ HandleZero
    \/ \E r \in Records : HandleHeader(r)
    \/ HandleNoDispatch
    \/ HandleContexts
    \/ HandleMount
    \/ HandleUnlinkLike
    \/ HandleFork
    \/ HandleExec
    \/ HandleExit
    \/ HandleSetCreds
    \/ HandleDecodeOnly
    \/ HandleUnloadModule
    \/ HandleUnsupported
    \/ HandleResolve
    \/ HandleDispatch
    \/ HandleDequeue
    \/ HandleReturn

\* ---------------------------------------------------- lifecycle: Start, Close

\* deletions a background flush is started with
MaxPending == 2

CloseInit ==
    /\ spc = "new"
    /\ ctxCancelled = FALSE
    /\ reorderer = "off"
    /\ monitorTask = "off"
    /\ managerState = "off"
    /\ resolversClosed = FALSE
    /\ cpc = "idle"
    /\ bgFlush = 0
    /\ lateAccess = "none"
    /\ queued = 0

\* a task uses a resolver or a discarder table
Access(task) == IF resolversClosed /\ lateAccess = "none" THEN task ELSE lateAccess

\* Probe.wg has no task left to wait for
WaitGroupEmpty == reorderer \notin {"running", "handling"} /\ monitorTask # "running"

\* lines 221-223: Start adds the reorderer to the wait group and starts it
StartReorderer ==
    /\ spc = "new"
    /\ spc' = "manager"
    /\ reorderer' = "running"
    /\ UNCHANGED notClose
    /\ UNCHANGED << ctxCancelled, monitorTask, managerState, resolversClosed, cpc,
                    bgFlush, lateAccess, queued >>

\* lines 225-227: Start starts the manager; an error is returned
StartManager ==
    /\ spc = "manager"
    /\ \E ok \in BOOLEAN :
        IF ok THEN spc' = "monitor" /\ managerState' = "started"
              ELSE spc' = "failed" /\ UNCHANGED managerState
    /\ UNCHANGED notClose
    /\ UNCHANGED << ctxCancelled, reorderer, monitorTask, resolversClosed, cpc,
                    bgFlush, lateAccess, queued >>

\* line 229: Start starts the monitor with the context and the wait group
StartMonitor ==
    /\ spc = "monitor"
    /\ \E ok \in BOOLEAN :
        IF ok THEN spc' = "started" /\ monitorTask' = "running"
              ELSE spc' = "failed" /\ UNCHANGED monitorTask
    /\ UNCHANGED notClose
    /\ UNCHANGED << ctxCancelled, reorderer, managerState, resolversClosed, cpc,
                    bgFlush, lateAccess, queued >>

\* line 169: the perf map reader of the started manager hands a record to the
\* reorderer, which queues it unless the context is cancelled
PerfReaderEnqueue ==
    /\ managerState = "started" /\ reorderer # "off"
    /\ ~ctxCancelled
    /\ queued < MaxPending
    /\ queued' = queued + 1
    /\ UNCHANGED notClose
    /\ UNCHANGED << spc, ctxCancelled, reorderer, monitorTask, managerState,
                    resolversClosed, cpc, bgFlush, lateAccess >>

\* the reorderer task: until the context is cancelled it dequeues a record
\* and hands it to handleEvent, which uses the resolvers; then it is done
ReordererStep ==
    /\ reorderer \in {"running", "handling"}
    /\ IF reorderer = "handling"
       THEN reorderer' = "running" /\ lateAccess' = Access("reorderer")
                /\ UNCHANGED queued
       ELSE IF ctxCancelled
            THEN reorderer' = "done" /\ UNCHANGED << lateAccess, queued >>
            ELSE /\ queued > 0
                 /\ queued' = queued - 1
                 /\ reorderer' = "handling"
                 /\ UNCHANGED lateAccess
    /\ UNCHANGED notClose
    /\ UNCHANGED << spc, ctxCancelled, monitorTask, managerState, resolversClosed,
                    cpc, bgFlush >>

\* the monitor task: it runs until the context is cancelled
MonitorStep ==
    /\ monitorTask = "running"
    /\ IF ctxCancelled
       THEN monitorTask' = "done" /\ UNCHANGED lateAccess
       ELSE UNCHANGED monitorTask /\ lateAccess' = Access("monitor")
    /\ UNCHANGED notClose
    /\ UNCHANGED << spc, ctxCancelled, reorderer, managerState, resolversClosed,
                    cpc, bgFlush, queued >>

\* lines 816-817: FlushDiscarders, called on a started probe with a window
\* other than 0, starts the goroutine that makes the n deletions
StartBackgroundFlush(n) ==
    /\ spc = "started" /\ cpc = "idle"
    /\ bgFlush = 0
    /\ bgFlush' = n
    /\ UNCHANGED notClose
    /\ UNCHANGED << spc, ctxCancelled, reorderer, monitorTask, managerState,
                    resolversClosed, cpc, lateAccess, queued >>

\* lines 792-813: the goroutine expires an inode discarder or deletes a pid
\* discarder, then sleeps
BackgroundFlushStep ==
    /\ bgFlush > 0
    /\ bgFlush' = bgFlush - 1
    /\ lateAccess' = Access("flush")
    /\ UNCHANGED notClose
    /\ UNCHANGED << spc, ctxCancelled, reorderer, monitorTask, managerState,
                    resolversClosed, cpc, queued >>

\* line 835: Close cancels the context
CloseCancel ==
    /\ cpc = "idle" /\ spc \in {"started", "failed"}
    /\ cpc' = "cancelled"
    /\ ctxCancelled' = TRUE
    /\ UNCHANGED notClose
    /\ UNCHANGED << spc, reorderer, monitorTask, managerState, resolversClosed,
                    bgFlush, lateAccess, queued >>

\* line 838: Close waits until the reorderer and the monitor are stopped
CloseWait ==
    /\ cpc = "cancelled"
    /\ WaitGroupEmpty
    /\ cpc' = "waited"
    /\ UNCHANGED notClose
    /\ UNCHANGED << spc, ctxCancelled, reorderer, monitorTask, managerState,
                    resolversClosed, bgFlush, lateAccess, queued >>

\* lines 841-843: Close stops the manager; an error is returned
CloseStopManager ==
    /\ cpc = "waited"
    /\ \E ok \in BOOLEAN :
        IF ok THEN cpc' = "stopped" /\ managerState' = "stopped"
              ELSE cpc' = "error" /\ UNCHANGED managerState
    /\ UNCHANGED notClose
    /\ UNCHANGED << spc, ctxCancelled, reorderer, monitorTask, resolversClosed,
                    bgFlush, lateAccess, queued >>

\* line 846: Close closes the resolvers
CloseResolvers ==
    /\ cpc = "stopped"
    /\ cpc' = "done"
    /\ resolversClosed' = TRUE
    /\ UNCHANGED notClose
    /\ UNCHANGED << spc, ctxCancelled, reorderer, monitorTask, managerState,
                    bgFlush, lateAccess, queued >>

CloseNext ==
    \/ StartReorderer
    \/ StartManager
    \/ StartMonitor
    \/ PerfReaderEnqueue
    \/ ReordererStep
    \/ MonitorStep
    \/ \E n \in 1..MaxPending : StartBackgroundFlush(n)
    \/ BackgroundFlushStep
    \/ CloseCancel
    \/ CloseWait
    \/ CloseStopManager
    \/ CloseResolvers

\* ------------------------------------------------------ construction: NewProbe

\* kernel.Kernel4_15, the version code of Linux 4.15 (4 * 2^16 + 15 * 2^8)
Kernel4_15 == 265984
\* how far around Kernel4_15 the detected version codes range
MaxCodeDelta == 2

KernelCodes == (Kernel4_15 - MaxCodeDelta)..(Kernel4_15 + MaxCodeDelta)
KernelVersions == [rh7 : BOOLEAN, rh8 : BOOLEAN, code : KernelCodes]
NoKernel == [rh7 |-> FALSE, rh8 |-> FALSE, code |-> 0]

\* lines 116-122: VerifyOSVersion returns an error when the kernel is neither
\* an RH7 nor an RH8 kernel and its version code is below 4.15
VerifyOSVersion(kv) ==
    IF ~kv.rh7 /\ ~kv.rh8 /\ kv.code < Kernel4_15 THEN "error" ELSE "nil"

NewProbeInit ==
    /\ npc = "erpc"
    /\ kernelVersion = NoKernel
    /\ nret = "none"
    /\ osWarned = FALSE

\* lines 870-873: NewERPC; on an error NewProbe returns it and no probe
NewProbeERPC ==
    /\ npc = "erpc"
    /\ \E ok \in BOOLEAN :
        IF ok THEN npc' = "detect" /\ UNCHANGED nret
              ELSE npc' = "returned" /\ nret' = "error"
    /\ UNCHANGED notNewProbe
    /\ UNCHANGED << kernelVersion, osWarned >>

\* lines 888-891, 99-106: detectKernelVersion; without the kernel version
\* NewProbe fails
NewProbeDetect ==
    /\ npc = "detect"
    /\ \/ \E kv \in KernelVersions :
            /\ kernelVersion' = kv
            /\ npc' = "verify"
            /\ UNCHANGED nret
       \/ /\ npc' = "returned"
          /\ nret' = "error"
          /\ UNCHANGED kernelVersion
    /\ UNCHANGED notNewProbe
    /\ UNCHANGED osWarned

\* lines 892-894: the error of VerifyOSVersion is logged as a warning, and
\* NewProbe goes on
NewProbeVerify ==
    /\ npc = "verify"
    /\ osWarned' = (VerifyOSVersion(kernelVersion) = "error")
    /\ npc' = "cpu"
    /\ UNCHANGED notNewProbe
    /\ UNCHANGED << kernelVersion, nret >>

\* lines 896-902: ensureConfigDefaults and utils.NumCPU
NewProbeNumCPU ==
    /\ npc = "cpu"
    /\ \E ok \in BOOLEAN :
        IF ok THEN npc' = "offsets" /\ UNCHANGED nret
              ELSE npc' = "returned" /\ nret' = "error"
    /\ UNCHANGED notNewProbe
    /\ UNCHANGED << kernelVersion, osWarned >>

\* lines 913-917: GetOffsetConstants
NewProbeOffsets ==
    /\ npc = "offsets"
    /\ \E ok \in BOOLEAN :
        IF ok THEN npc' = "resolvers" /\ UNCHANGED nret
              ELSE npc' = "returned" /\ nret' = "error"
    /\ UNCHANGED notNewProbe
    /\ UNCHANGED << kernelVersion, osWarned >>

\* lines 919-1001: the manager options, then NewResolvers
NewProbeResolvers ==
    /\ npc = "resolvers"
    /\ \E ok \in BOOLEAN :
        IF ok THEN npc' = "finish" /\ UNCHANGED nret
              ELSE npc' = "returned" /\ nret' = "error"
    /\ UNCHANGED notNewProbe
    /\ UNCHANGED << kernelVersion, osWarned >>

\* lines 1002-1022: the reorderer, the scrubber and the event are set up and
\* the probe is returned
NewProbeReturn ==
    /\ npc = "finish"
    /\ npc' = "returned"
    /\ nret' = "probe"
    /\ UNCHANGED notNewProbe
    /\ UNCHANGED << kernelVersion, osWarned >>

NewProbeNext ==
    \/ NewProbeERPC
    \/ NewProbeDetect
    \/ NewProbeVerify
    \/ NewProbeNumCPU
    \/ NewProbeOffsets
    \/ NewProbeResolvers
    \/ NewProbeReturn

\* ------------------------------------------------------------ file trie
\* activity_dump.go: the per-process trie of opened files.  A path is a
\* string (a sequence of characters); a trie node is identified by the
\* sequence of map keys that leads to it from pan.Files.

MaxDepth == 2
MaxInserts == 3

Segments == { <<"a">>, <<"a", "b">> }
SegSeqs == UNION { [1..n -> Segments] : n \in 0..MaxDepth }

RECURSIVE Render(_)
Render(ss) == IF ss = << >> THEN << >> ELSE <<"/">> \o Head(ss) \o Render(Tail(ss))

\* absolute, normalised paths as the resolvers produce them; "/" is the root
AbsPath(ss) == IF ss = << >> THEN <<"/">> ELSE Render(ss)
OpenPaths == { AbsPath(ss) : ss \in SegSeqs }

NilFileEvent == [PathnameStr |-> << >>]
FileEvents == [PathnameStr : OpenPaths]

SlashAt(p) == { i \in 1..Len(p) : p[i] = "/" }
FirstSlash(p) == CHOOSE i \in SlashAt(p) : \A j \in SlashAt(p) : i <= j

\* Go's s[n:]
From(s, n) == SubSeq(s, n + 1, Len(s))

extractFirstParent(path) ==
    IF Len(path) = 0 \/ path = <<"/">>
    THEN << << >>, 0 >>
    ELSE LET add == IF path[1] = "/" THEN 1 ELSE 0
             p == IF add = 1 THEN Tail(path) ELSE path
         IN  IF SlashAt(p) # {}
             THEN << SubSeq(p, 1, FirstSlash(p) - 1), FirstSlash(p) - 1 + add >>
             ELSE << p, Len(p) + add >>

enrichFromEvent(fan, event) ==
    IF event = "nil" THEN fan ELSE [fan EXCEPT !.Open = TRUE]

NewFileActivityNodeAlwaysOpen(fileEvent, event) ==
    [File |-> fileEvent, Open |-> TRUE]

NewFileActivityNode(fileEvent, event) ==
    enrichFromEvent([File |-> fileEvent, Open |-> FALSE], event)

RECURSIVE FanInsertFileEvent(_, _, _, _, _)
FanInsertFileEvent(trie, fan, fileEvent, event, remainingPath) ==
    LET e == extractFirstParent(remainingPath)
        parent == e[1]
        nextParentIndex == e[2]
        child == Append(fan, parent)
        rest == From(remainingPath, nextParentIndex)
    IN  IF nextParentIndex = 0
        THEN [Files |-> [trie EXCEPT ![fan] = enrichFromEvent(@, event)], ret |-> FALSE]
        ELSE IF child \in DOMAIN trie
        THEN FanInsertFileEvent(trie, child, fileEvent, event, rest)
        ELSE IF Len(remainingPath) <= nextParentIndex + 1
        THEN [Files |-> trie @@ (child :> NewFileActivityNode(fileEvent, event)),
              ret |-> TRUE]
        ELSE [Files |-> FanInsertFileEvent(
                            trie @@ (child :> NewFileActivityNode(NilFileEvent, "nil")),
                            child, fileEvent, event, rest).Files,
              ret |-> TRUE]

PanInsertFileEvent(trie, fileEvent, event) ==
    LET e == extractFirstParent(fileEvent.PathnameStr)
        parent == e[1]
        nextParentIndex == e[2]
        child == << parent >>
        rest == From(fileEvent.PathnameStr, nextParentIndex)
    IN  IF nextParentIndex = 0
        THEN [Files |-> trie, ret |-> FALSE]
        ELSE IF child \in DOMAIN trie
        THEN FanInsertFileEvent(trie, child, fileEvent, event, rest)
        ELSE IF Len(fileEvent.PathnameStr) <= nextParentIndex + 1
        THEN [Files |-> trie @@ (child :> NewFileActivityNode(fileEvent, event)),
              ret |-> TRUE]
        ELSE [Files |-> FanInsertFileEvent(
                            trie @@ (child :> NewFileActivityNode(NilFileEvent, "nil")),
                            child, fileEvent, event, rest).Files,
              ret |-> TRUE]

EmptyTrie == [k \in {} |-> NewFileActivityNode(NilFileEvent, "nil")]
NoInsert == [path |-> << >>, ret |-> FALSE, added |-> 0, dup |-> FALSE]

TrieInit ==
    /\ Files = EmptyTrie
    /\ inserted = {}
    /\ lastInsert = NoInsert
    /\ insertCount = 0

\* one open event routed to pan.InsertFileEvent
InsertFileEvent ==
    /\ insertCount < MaxInserts
    /\ \E fileEvent \in FileEvents :
          LET r == PanInsertFileEvent(Files, fileEvent, "open")
          IN  /\ Files' = r.Files
              /\ lastInsert' = [path |-> fileEvent.PathnameStr,
                                ret |-> r.ret,
                                added |-> Cardinality(DOMAIN r.Files) - Cardinality(DOMAIN Files),
                                dup |-> fileEvent.PathnameStr \in inserted]
              /\ inserted' = inserted \cup {fileEvent.PathnameStr}
    /\ insertCount' = insertCount + 1
    /\ UNCHANGED notTrie

TrieNext == InsertFileEvent

\* ------------------------------------------------------------ activity dump
\* activity_dump.go: one ActivityDump with selector comm "ls" that traces
\* open events.  A process node is identified by its position: <<i>> is the
\* i-th root of ad.ProcessActivityTree, Append(k, j) the j-th child of k.
\* The counters are kept per event type; tracedPIDsMap is the set of pids
\* that have a timeout in the kernel map of traced pids.

MaxDumpEvents == 3

NilEntry == 0
NilNode == << >>
NilCache == 0

\* the process cache entries the resolver can hand out: pid 1 (init), its
\* fork pid 100, /bin/ls executed in pid 100, /bin/cat executed by ls in
\* pid 101, a second ls in pid 102 with another argv and no cookie, an
\* ls executed by the first ls in pid 103, and a fork of the first ls in
\* pid 104 that has not executed anything
ProcessCacheEntries ==
    << [Pid |-> 1, Cookie |-> 1, Comm |-> "init", PathnameStr |-> "/sbin/init",
        Credentials |-> 0, ArgsEntry |-> 1, EnvsEntry |-> 2,
        Argv |-> <<"init">>, Ancestor |-> NilEntry, IsFork |-> FALSE],
       [Pid |-> 100, Cookie |-> 0, Comm |-> "init", PathnameStr |-> "/sbin/init",
        Credentials |-> 0, ArgsEntry |-> 1, EnvsEntry |-> 2,
        Argv |-> <<"init">>, Ancestor |-> 1, IsFork |-> TRUE],
       [Pid |-> 100, Cookie |-> 2, Comm |-> "ls", PathnameStr |-> "/bin/ls",
        Credentials |-> 0, ArgsEntry |-> 3, EnvsEntry |-> 2,
        Argv |-> <<"ls", "-l">>, Ancestor |-> 2, IsFork |-> FALSE],
       [Pid |-> 101, Cookie |-> 3, Comm |-> "cat", PathnameStr |-> "/bin/cat",
        Credentials |-> 0, ArgsEntry |-> 4, EnvsEntry |-> NilCache,
        Argv |-> <<"cat">>, Ancestor |-> 3, IsFork |-> FALSE],
       [Pid |-> 102, Cookie |-> 0, Comm |-> "ls", PathnameStr |-> "/bin/ls",
        Credentials |-> 0, ArgsEntry |-> 5, EnvsEntry |-> 2,
        Argv |-> <<"ls", "-a">>, Ancestor |-> 1, IsFork |-> FALSE],
       [Pid |-> 103, Cookie |-> 4, Comm |-> "ls", PathnameStr |-> "/bin/ls",
        Credentials |-> 0, ArgsEntry |-> NilCache, EnvsEntry |-> 2,
        Argv |-> <<"-l", "ls">>, Ancestor |-> 3, IsFork |-> FALSE],
       [Pid |-> 104, Cookie |-> 0, Comm |-> "ls", PathnameStr |-> "/bin/ls",
        Credentials |-> 0, ArgsEntry |-> 3, EnvsEntry |-> 2,
        Argv |-> <<"ls", "-l">>, Ancestor |-> 3, IsFork |-> TRUE] >>

EntryIds == 1..Len(ProcessCacheEntries)
CacheIds == 1..5
Entry(e) == ProcessCacheEntries[e]

RECURSIVE GetNextAncestorNoFork(_)
GetNextAncestorNoFork(e) ==
    LET a == Entry(e).Ancestor
    IN  IF a = NilEntry THEN NilEntry
        ELSE IF ~Entry(a).IsFork THEN a
        ELSE GetNextAncestorNoFork(a)

Comm == "ls"
ContainerID == ""
tracedEventTypes == {"open"}
\* the event types that have counters (model.EventType values below
\* model.MaxEventType)
DumpEventTypes == {"fork", "exec", "open"}

\* ad.UpdateTracedPidTimeout: the pid gets the timeout of the dump
UpdateTracedPidTimeout(map, pid) == map \cup {pid}

EtcPasswd == <<"/", "e", "t", "c", "/", "p", "a", "s", "s", "w", "d">>
Etc == <<"/", "e", "t", "c">>
DumpPaths == { EtcPasswd, Etc }

AdMatchesNever(e) == FALSE

\* ad.Matches: the selector of the dump
AdMatches(e) ==
    /\ e # NilEntry
    /\ (ContainerID # "" => ContainerID = "")
    /\ (Comm # "" => Comm = Entry(e).Comm)

\* pan.Matches, with the argv comparison as the loops make it
ArgvMatches(panArgs, entryArgs) ==
    /\ Len(panArgs) = Len(entryArgs)
    /\ \A i \in 1..Len(panArgs) : \E j \in 1..Len(entryArgs) : panArgs[i] = entryArgs[j]

\* a Matches that compares the arguments whatever matchArgs says
ProcessMatchesWithArgs(proc, entry, matchArgs) ==
    /\ proc.Comm = entry.Comm
    /\ proc.PathnameStr = entry.PathnameStr
    /\ proc.Credentials = entry.Credentials
    /\ ArgvMatches(proc.Argv, entry.Argv)

ProcessMatches(proc, entry, matchArgs) ==
    /\ proc.Comm = entry.Comm
    /\ proc.PathnameStr = entry.PathnameStr
    /\ proc.Credentials = entry.Credentials
    /\ (matchArgs => ArgvMatches(proc.Argv, entry.Argv))

Roots(tree) == { k \in DOMAIN tree : Len(k) = 1 }
Children(tree, k) ==
    { c \in DOMAIN tree : Len(c) = Len(k) + 1 /\ SubSeq(c, 1, Len(k)) = k }
FirstOf(ks) == CHOOSE k \in ks : \A o \in ks : k[Len(k)] <= o[Len(o)]

\* pan.retain: one Retain per non-nil args / envs cache entry
retain(counts, e) ==
    [c \in CacheIds |->
        counts[c] + (IF Entry(e).ArgsEntry = c THEN 1 ELSE 0)
                  + (IF Entry(e).EnvsEntry = c THEN 1 ELSE 0)]

NewProcessActivityNode(e, generationType) ==
    [Process |-> e, GenerationType |-> generationType, Files |-> EmptyTrie]

FindOrCreateMatchingOnly(d, e, generationType, matchArgs) ==
    IF e = NilEntry \/ ~AdMatches(e)
    THEN [d |-> d, node |-> NilNode]
    ELSE LET node == << Cardinality(Roots(d.tree)) + 1 >>
         IN  [d |-> [d EXCEPT
                     !.tree = d.tree @@ (node :> NewProcessActivityNode(e, generationType)),
                     !.retained = retain(d.retained, e)],
              node |-> node]

\* the same with the pid registered as traced before the selector is checked
RECURSIVE FindOrCreateTraceFirst(_, _, _, _)
FindOrCreateTraceFirst(d, e, generationType, matchArgs) ==
    IF e = NilEntry
    THEN [d |-> d, node |-> NilNode]
    ELSE IF Entry(e).Cookie > 0 /\ Entry(e).Cookie \in DOMAIN d.cookies
    THEN [d |-> d, node |-> d.cookies[Entry(e).Cookie]]
    ELSE
    LET pr == FindOrCreateTraceFirst(d, GetNextAncestorNoFork(e), "snapshot", matchArgs)
        parentNode == pr.node
        siblings == IF parentNode = NilNode THEN Roots(pr.d.tree)
                    ELSE Children(pr.d.tree, parentNode)
        matching == { k \in siblings :
                        ProcessMatches(Entry(pr.d.tree[k].Process), Entry(e), matchArgs) }
        node == Append(parentNode, Cardinality(siblings) + 1)
    IN  IF parentNode = NilNode /\ ~AdMatches(e)
        THEN [d |-> [pr.d EXCEPT !.tracedPIDsMap =
                        UpdateTracedPidTimeout(@, Entry(e).Pid)],
              node |-> NilNode]
        ELSE IF matching # {}
        THEN [d |-> pr.d, node |-> FirstOf(matching)]
        ELSE [d |-> [tree |-> pr.d.tree @@ (node :> NewProcessActivityNode(e, generationType)),
                     cookies |-> IF Entry(e).Cookie > 0
                                 THEN pr.d.cookies @@ (Entry(e).Cookie :> node)
                                 ELSE pr.d.cookies,
                     retained |-> retain(pr.d.retained, e),
                     addedRuntimeCount |->
                         IF generationType = "runtime"
                         THEN [pr.d.addedRuntimeCount EXCEPT !["exec"] = @ + 1]
                         ELSE pr.d.addedRuntimeCount,
                     addedSnapshotCount |->
                         IF generationType = "snapshot"
                         THEN [pr.d.addedSnapshotCount EXCEPT !["exec"] = @ + 1]
                         ELSE pr.d.addedSnapshotCount,
                     tracedPIDsMap |-> UpdateTracedPidTimeout(pr.d.tracedPIDsMap, Entry(e).Pid)],
              node |-> node]

\* d = [tree, cookies, retained, addedRuntimeCount, addedSnapshotCount,
\* tracedPIDsMap]; the result carries the new d and the node
RECURSIVE FindOrCreateProcessActivityNode(_, _, _, _)
FindOrCreateProcessActivityNode(d, e, generationType, matchArgs) ==
    IF e = NilEntry
    THEN [d |-> d, node |-> NilNode]
    ELSE IF Entry(e).Cookie > 0 /\ Entry(e).Cookie \in DOMAIN d.cookies
    THEN [d |-> d, node |-> d.cookies[Entry(e).Cookie]]
    ELSE
    LET pr == FindOrCreateProcessActivityNode(d, GetNextAncestorNoFork(e), "snapshot", matchArgs)
        parentNode == pr.node
        siblings == IF parentNode = NilNode THEN Roots(pr.d.tree)
                    ELSE Children(pr.d.tree, parentNode)
        matching == { k \in siblings :
                        ProcessMatches(Entry(pr.d.tree[k].Process), Entry(e), matchArgs) }
        node == Append(parentNode, Cardinality(siblings) + 1)
    IN  IF parentNode = NilNode /\ ~AdMatches(e)
        THEN [d |-> pr.d, node |-> NilNode]
        ELSE IF matching # {}
        THEN [d |-> pr.d, node |-> FirstOf(matching)]
        ELSE [d |-> [tree |-> pr.d.tree @@ (node :> NewProcessActivityNode(e, generationType)),
                     cookies |-> IF Entry(e).Cookie > 0
                                 THEN pr.d.cookies @@ (Entry(e).Cookie :> node)
                                 ELSE pr.d.cookies,
                     retained |-> retain(pr.d.retained, e),
                     addedRuntimeCount |->
                         IF generationType = "runtime"
                         THEN [pr.d.addedRuntimeCount EXCEPT !["exec"] = @ + 1]
                         ELSE pr.d.addedRuntimeCount,
                     addedSnapshotCount |->
                         IF generationType = "snapshot"
                         THEN [pr.d.addedSnapshotCount EXCEPT !["exec"] = @ + 1]
                         ELSE pr.d.addedSnapshotCount,
                     tracedPIDsMap |-> UpdateTracedPidTimeout(pr.d.tracedPIDsMap, Entry(e).Pid)],
              node |-> node]

Events ==
    [type : {"fork"}, entry : {2, 7}, path : {Etc}]
    \cup [type : {"exec"},
          entry : { e \in EntryIds : ~Entry(e).IsFork } \cup {NilEntry}, path : {Etc}]
    \cup [type : {"open"}, entry : EntryIds, path : DumpPaths]

\* how far the operations so far spell the scenario fork of pid 100,
\* exec of /bin/ls in pid 100, open of /etc/passwd by pid 100
Scenario ==
    << [type |-> "fork", entry |-> 2, path |-> Etc],
       [type |-> "exec", entry |-> 3, path |-> Etc],
       [type |-> "open", entry |-> 3, path |-> EtcPasswd] >>
OffScenario == -1
ScenarioStep(sc, event) ==
    IF sc # OffScenario /\ sc < Len(Scenario) /\ Scenario[sc + 1] = event
    THEN sc + 1 ELSE OffScenario

NoFind == [entry |-> NilEntry, node |-> NilNode, called |-> FALSE]
NoProfile == << >>
NoCall == [type |-> "none", entry |-> NilEntry, newEntry |-> FALSE]

DumpInit ==
    /\ ProcessActivityTree = [k \in {} |-> NewProcessActivityNode(NilEntry, "runtime")]
    /\ CookiesNode = [c \in {} |-> NilNode]
    /\ DifferentiateArgs \in BOOLEAN
    /\ retained = [c \in CacheIds |-> 0]
    /\ released = [c \in CacheIds |-> 0]
    /\ dumpDone = FALSE
    /\ nEvents = 0
    /\ scenario = 0
    /\ lastFind = NoFind
    /\ profile = NoProfile
    /\ processedCount = [t \in DumpEventTypes |-> 0]
    /\ addedRuntimeCount = [t \in DumpEventTypes |-> 0]
    /\ addedSnapshotCount = [t \in DumpEventTypes |-> 0]
    /\ tracedPIDsMap = {}
    /\ lastCall = NoCall

DumpIdle == DumpInit /\ DifferentiateArgs = FALSE

\* ad.Insert line 286: fork events are ignored
IsIgnoredNever(event) == FALSE

IsIgnored(event) == event.type = "fork"

\* the same with processedCount incremented before the traced-type check
InsertApplyCountUntraced(event, r) ==
    LET found == r.node # NilNode
        traced == event.type \in tracedEventTypes
        inserts == found /\ traced /\ event.type = "open"
        ins == IF inserts
               THEN PanInsertFileEvent(r.d.tree[r.node].Files,
                                       [PathnameStr |-> event.path], "open")
               ELSE [Files |-> EmptyTrie, ret |-> FALSE]
        newEntry == ins.ret
    IN  /\ CookiesNode' = r.d.cookies
        /\ retained' = r.d.retained
        /\ tracedPIDsMap' = r.d.tracedPIDsMap
        /\ addedSnapshotCount' = r.d.addedSnapshotCount
        /\ lastFind' = [entry |-> event.entry, node |-> r.node, called |-> TRUE]
        /\ processedCount' = IF found
                             THEN [processedCount EXCEPT ![event.type] = @ + 1]
                             ELSE processedCount
        /\ ProcessActivityTree' = IF inserts
                                  THEN [r.d.tree EXCEPT ![r.node].Files = ins.Files]
                                  ELSE r.d.tree
        /\ addedRuntimeCount' = IF newEntry
                                THEN [r.d.addedRuntimeCount EXCEPT ![event.type] = @ + 1]
                                ELSE r.d.addedRuntimeCount
        /\ lastCall' = [type |-> event.type, entry |-> event.entry, newEntry |-> newEntry]

\* ad.Insert after the fork check; r is the result of
\* FindOrCreateProcessActivityNode
InsertApply(event, r) ==
    LET found == r.node # NilNode
        traced == event.type \in tracedEventTypes
        inserts == found /\ traced /\ event.type = "open"
        ins == IF inserts
               THEN PanInsertFileEvent(r.d.tree[r.node].Files,
                                       [PathnameStr |-> event.path], "open")
               ELSE [Files |-> EmptyTrie, ret |-> FALSE]
        newEntry == ins.ret
    IN  /\ CookiesNode' = r.d.cookies
        /\ retained' = r.d.retained
        /\ tracedPIDsMap' = r.d.tracedPIDsMap
        /\ addedSnapshotCount' = r.d.addedSnapshotCount
        /\ lastFind' = [entry |-> event.entry, node |-> r.node, called |-> TRUE]
        /\ processedCount' = IF found /\ traced
                             THEN [processedCount EXCEPT ![event.type] = @ + 1]
                             ELSE processedCount
        /\ ProcessActivityTree' = IF inserts
                                  THEN [r.d.tree EXCEPT ![r.node].Files = ins.Files]
                                  ELSE r.d.tree
        /\ addedRuntimeCount' = IF newEntry
                                THEN [r.d.addedRuntimeCount EXCEPT ![event.type] = @ + 1]
                                ELSE r.d.addedRuntimeCount
        /\ lastCall' = [type |-> event.type, entry |-> event.entry, newEntry |-> newEntry]

\* ad.Insert(event)
Insert ==
    /\ ~dumpDone
    /\ nEvents < MaxDumpEvents
    /\ nEvents' = nEvents + 1
    /\ \E event \in Events :
          /\ scenario' = ScenarioStep(scenario, event)
          /\ IF IsIgnored(event)
             THEN /\ lastFind' = NoFind
                  /\ lastCall' = [type |-> event.type, entry |-> event.entry, newEntry |-> FALSE]
                  /\ UNCHANGED << ProcessActivityTree, CookiesNode, retained,
                                  processedCount, addedRuntimeCount,
                                  addedSnapshotCount, tracedPIDsMap >>
             ELSE InsertApply(event,
                      FindOrCreateProcessActivityNode(
                          [tree |-> ProcessActivityTree, cookies |-> CookiesNode,
                           retained |-> retained,
                           addedRuntimeCount |-> addedRuntimeCount,
                           addedSnapshotCount |-> addedSnapshotCount,
                           tracedPIDsMap |-> tracedPIDsMap],
                          event.entry, "runtime", DifferentiateArgs))
    /\ profile' = NoProfile
    /\ UNCHANGED << DifferentiateArgs, released, dumpDone >>
    /\ UNCHANGED notDump

\* ad.Snapshot: every process node gets the files procfs lists for it
\* (here none or one of DumpPaths)
Snapshot ==
    /\ ~dumpDone
    /\ nEvents < MaxDumpEvents
    /\ nEvents' = nEvents + 1
    /\ DOMAIN ProcessActivityTree # {}
    /\ scenario' = OffScenario
    /\ \E files \in [DOMAIN ProcessActivityTree -> DumpPaths \cup {<< >>}] :
          LET ins == [k \in DOMAIN ProcessActivityTree |->
                        IF files[k] = << >>
                        THEN [Files |-> ProcessActivityTree[k].Files, ret |-> FALSE]
                        ELSE PanInsertFileEvent(ProcessActivityTree[k].Files,
                                                [PathnameStr |-> files[k]], "open")]
          IN  /\ ProcessActivityTree' =
                    [k \in DOMAIN ProcessActivityTree |->
                        [ProcessActivityTree[k] EXCEPT !.Files = ins[k].Files]]
              /\ addedSnapshotCount' =
                    [addedSnapshotCount EXCEPT !["open"] =
                        @ + Cardinality({ k \in DOMAIN ProcessActivityTree : ins[k].ret })]
    /\ profile' = NoProfile
    /\ lastFind' = NoFind
    /\ lastCall' = NoCall
    /\ UNCHANGED << CookiesNode, DifferentiateArgs, retained, released, dumpDone,
                    processedCount, addedRuntimeCount, tracedPIDsMap >>
    /\ UNCHANGED notDump

\* pan.release: one Release per non-nil args / envs cache entry
release(counts, e) ==
    [c \in CacheIds |->
        counts[c] + (IF Entry(e).ArgsEntry = c THEN 1 ELSE 0)
                  + (IF Entry(e).EnvsEntry = c THEN 1 ELSE 0)]

recursiveReleaseShallow(tree, pan, counts) == release(counts, tree[pan].Process)

RECURSIVE recursiveRelease(_, _, _)
RECURSIVE ReleaseEach(_, _, _)
recursiveRelease(tree, pan, counts) ==
    ReleaseEach(tree, Children(tree, pan), release(counts, tree[pan].Process))

ReleaseEach(tree, nodes, counts) ==
    IF nodes = {} THEN counts
    ELSE LET pan == CHOOSE n \in nodes : TRUE
         IN  ReleaseEach(tree, nodes \ {pan}, recursiveRelease(tree, pan, counts))

\* ad.Done()
Done ==
    /\ ~dumpDone
    /\ dumpDone' = TRUE
    /\ released' = ReleaseEach(ProcessActivityTree, Roots(ProcessActivityTree), released)
    /\ profile' = NoProfile
    /\ UNCHANGED << ProcessActivityTree, CookiesNode, DifferentiateArgs, retained,
                    nEvents, scenario, lastFind, processedCount, addedRuntimeCount,
                    addedSnapshotCount, tracedPIDsMap, lastCall >>
    /\ UNCHANGED notDump

RECURSIVE generateFIMRules(_, _, _, _)
RECURSIVE FIMRulesOfChildren(_, _, _, _)
generateFIMRules(trie, file, activityNode, ancestors) ==
    IF trie[file].File = NilFileEvent
    THEN << >>
    ELSE (IF trie[file].Open
          THEN << [rule |-> "open", path |-> trie[file].File.PathnameStr,
                   process |-> Entry(activityNode.Process).PathnameStr,
                   ancestors |-> ancestors] >>
          ELSE << >>)
         \o FIMRulesOfChildren(trie, Children(trie, file), activityNode, ancestors)

FIMRulesOfChildren(trie, files, activityNode, ancestors) ==
    IF files = {} THEN << >>
    ELSE LET file == CHOOSE f \in files : TRUE
         IN  generateFIMRules(trie, file, activityNode, ancestors)
             \o FIMRulesOfChildren(trie, files \ {file}, activityNode, ancestors)

RECURSIVE generateRules(_, _, _)
RECURSIVE RulesOfChildren(_, _, _)
generateRules(tree, node, ancestors) ==
    << [rule |-> "exec", path |-> Entry(tree[node].Process).PathnameStr,
        process |-> Entry(tree[node].Process).PathnameStr,
        ancestors |-> ancestors] >>
    \o FIMRulesOfChildren(tree[node].Files, Roots(tree[node].Files), tree[node], ancestors)
    \o RulesOfChildren(tree, Children(tree, node),
                       << Entry(tree[node].Process).PathnameStr >> \o ancestors)

RulesOfChildren(tree, nodes, ancestors) ==
    IF nodes = {} THEN << >>
    ELSE LET node == CHOOSE n \in nodes : TRUE
         IN  generateRules(tree, node, ancestors)
             \o RulesOfChildren(tree, nodes \ {node}, ancestors)

\* ad.GenerateProfileData()
GenerateProfileData ==
    /\ DOMAIN ProcessActivityTree # {}
    /\ profile' = RulesOfChildren(ProcessActivityTree, Roots(ProcessActivityTree), << >>)
    /\ UNCHANGED << ProcessActivityTree, CookiesNode, DifferentiateArgs, retained,
                    released, dumpDone, nEvents, scenario, lastFind, processedCount,
                    addedRuntimeCount, addedSnapshotCount, tracedPIDsMap, lastCall >>
    /\ UNCHANGED notDump

DumpNext == Insert \/ Snapshot \/ Done \/ GenerateProfileData

\* ------------------------------------------------------------ node matching
\* activity_dump.go: ProcessActivityNode.Matches as a function of the node's
\* process, the entry and the matchArgs flag.

MaxArgs == 2

ArgValues == {"ls", "-l"}
Argvs == UNION { [1..n -> ArgValues] : n \in 0..MaxArgs }
MatchComms == {"ls", "cat"}
MatchProcesses ==
    [Comm : MatchComms, PathnameStr : {"/bin/ls"}, Credentials : {0}, Argv : Argvs]

NoMatchResult == [called |-> FALSE, matches |-> FALSE, swapped |-> FALSE]

MatchInit ==
    /\ mNode \in MatchProcesses
    /\ mEntry \in MatchProcesses
    /\ mMatchArgs \in BOOLEAN
    /\ mResult = NoMatchResult

MatchIdle ==
    /\ MatchInit
    /\ mNode = [Comm |-> "ls", PathnameStr |-> "/bin/ls", Credentials |-> 0, Argv |-> << >>]
    /\ mEntry = mNode
    /\ mMatchArgs = FALSE

\* pan.Matches(entry, matchArgs, resolvers), and the same call with the
\* node's process and the entry exchanged
Matches ==
    /\ ~mResult.called
    /\ mResult' = [called |-> TRUE,
                   matches |-> ProcessMatches(mNode, mEntry, mMatchArgs),
                   swapped |-> ProcessMatches(mEntry, mNode, mMatchArgs)]
    /\ UNCHANGED << mNode, mEntry, mMatchArgs >>
    /\ UNCHANGED notMatch

MatchNext == Matches

\* ------------------------------------------------------------ reference count
\* model.go: the reference count of one ProcessCacheEntry.  refCount is a
\* uint64; its arithmetic is modular, here with RefCountBits bits, and the
\* bounds keep the number of holders far below the wrap-around.

MaxHolders == 3
RefCountBits == 4
RefCountMod == 2 ^ RefCountBits
NeverSet == -1

RefIdle ==
    /\ refCount = 0
    /\ onRelease = TRUE
    /\ cbSetAt = NeverSet
    /\ nRetain = 0
    /\ nRelease = 0
    /\ mixed = FALSE
    /\ cbLog = << >>

\* NewProcessCacheEntry(onRelease), with or without an onRelease function
RefInit ==
    /\ refCount = 0
    /\ onRelease \in BOOLEAN
    /\ cbSetAt = NeverSet
    /\ nRetain = 0
    /\ nRelease = 0
    /\ mixed = FALSE
    /\ cbLog = << >>

\* pc.Retain()
Retain ==
    /\ nRetain < MaxHolders
    /\ refCount' = (refCount + 1) % RefCountMod
    /\ nRetain' = nRetain + 1
    /\ mixed' = (mixed \/ nRelease > 0)
    /\ UNCHANGED << onRelease, cbSetAt, nRelease, cbLog >>
    /\ UNCHANGED notRef

\* pc.SetReleaseCallback(callback)
SetReleaseCallback ==
    /\ cbSetAt = NeverSet
    /\ cbSetAt' = nRelease
    /\ UNCHANGED << refCount, onRelease, nRetain, nRelease, mixed, cbLog >>
    /\ UNCHANGED notRef

Callbacks(withOnRelease, withReleaseCb) ==
    (IF withOnRelease THEN << "onRelease" >> ELSE << >>)
    \o (IF withReleaseCb THEN << "releaseCb" >> ELSE << >>)

ReleaseAlwaysCalls ==
    /\ nRelease < MaxHolders + 1
    /\ refCount' = (refCount - 1) % RefCountMod
    /\ nRelease' = nRelease + 1
    /\ cbLog' = cbLog \o Callbacks(onRelease, cbSetAt # NeverSet)
    /\ UNCHANGED << onRelease, cbSetAt, nRetain, mixed >>
    /\ UNCHANGED notRef

\* pc.Release()
Release ==
    /\ nRelease < MaxHolders + 1
    /\ refCount' = (refCount - 1) % RefCountMod
    /\ nRelease' = nRelease + 1
    /\ IF refCount' > 0
       THEN cbLog' = cbLog
       ELSE cbLog' = cbLog \o Callbacks(onRelease, cbSetAt # NeverSet)
    /\ UNCHANGED << onRelease, cbSetAt, nRetain, mixed >>
    /\ UNCHANGED notRef

\* pc.Reset(): the entry starts a new life
Reset ==
    /\ nRetain + nRelease > 0
    /\ refCount' = 0
    /\ cbSetAt' = NeverSet
    /\ nRetain' = 0
    /\ nRelease' = 0
    /\ mixed' = FALSE
    /\ cbLog' = << >>
    /\ UNCHANGED onRelease
    /\ UNCHANGED notRef

RefNext == Retain \/ SetReleaseCallback \/ Release \/ Reset

\* ------------------------------------------------------------ dump mutex
\* activity_dump.go: which operations of the ActivityDump take ad.Lock()
\* before they touch ProcessActivityTree, the file tries and CookiesNode.
\* goroutine[g] is where goroutine g is: "idle", blocked in ad.Lock() of an
\* operation, or inside the operation's accesses to the tree.

NumGoroutines == 3
Goroutines == 1..NumGoroutines
NoHolder == 0

LockingOps == {"Insert", "Snapshot", "Done"}
Idle == [op |-> "none", at |-> "idle"]

LockInit ==
    /\ mutex = NoHolder
    /\ goroutine = [g \in Goroutines |-> Idle]

\* the call of Insert, Snapshot or Done reaches ad.Lock()
CallLocking(g) ==
    /\ goroutine[g] = Idle
    /\ \E op \in LockingOps : goroutine' = [goroutine EXCEPT ![g] = [op |-> op, at |-> "Lock"]]
    /\ UNCHANGED mutex
    /\ UNCHANGED notLock

\* ad.Lock() returns; Insert and Snapshot then modify the tree, Done
\* serialises it first (ad.dump, json.Marshal)
Lock(g) ==
    /\ goroutine[g].at = "Lock"
    /\ mutex = NoHolder
    /\ mutex' = g
    /\ goroutine' = [goroutine EXCEPT ![g].at =
                        IF goroutine[g].op = "Done" THEN "dump" ELSE "write"]
    /\ UNCHANGED notLock

\* Done after the JSON dump: recursiveRelease walks the tree
DoneRelease(g) ==
    /\ goroutine[g] = [op |-> "Done", at |-> "dump"]
    /\ goroutine' = [goroutine EXCEPT ![g].at = "read"]
    /\ UNCHANGED mutex
    /\ UNCHANGED notLock

\* the deferred ad.Unlock() of Insert, Snapshot and Done
Unlock(g) ==
    /\ goroutine[g].op \in LockingOps
    /\ goroutine[g].at \in {"write", "read"}
    /\ mutex' = NoHolder
    /\ goroutine' = [goroutine EXCEPT ![g] = Idle]
    /\ UNCHANGED notLock

\* GenerateProfileData starts walking the tree; it takes no lock
GenerateProfileDataBegin(g) ==
    /\ goroutine[g] = Idle
    /\ goroutine' = [goroutine EXCEPT ![g] = [op |-> "GenerateProfileData", at |-> "read"]]
    /\ UNCHANGED mutex
    /\ UNCHANGED notLock

GenerateProfileDataEnd(g) ==
    /\ goroutine[g] = [op |-> "GenerateProfileData", at |-> "read"]
    /\ goroutine' = [goroutine EXCEPT ![g] = Idle]
    /\ UNCHANGED mutex
    /\ UNCHANGED notLock

LockNext ==
    \E g \in Goroutines :
        \/ CallLocking(g)
        \/ Lock(g)
        \/ DoneRelease(g)
        \/ Unlock(g)
        \/ GenerateProfileDataBegin(g)
        \/ GenerateProfileDataEnd(g)

\* ------------------------------------------------------------ reorderer
\* probe.go lines 168-171 and 1004-1012: the perf map hands every record to
\* p.reOrderer.HandleEvent and the reorderer hands records to p.handleEvent.
\* A record is its timestamp.  The reorderer keeps the records it holds
\* sorted by timestamp, each with the generation (tick number) of its arrival,
\* and at a tick emits the oldest ones that have been held for Retention
\* generations.

NumSources == 2
MaxTimestamp == 3
MaxRecords == 3
MaxTicks == 7
\* ReOrdererOpts.Retention
Retention == 5

Sources == 1..NumSources
Timestamps == 1..MaxTimestamp
NotArrived == -1

ReorderInit ==
    /\ roQueue = [c \in Sources |-> << >>]
    /\ roHeap = << >>
    /\ roGeneration = 0
    /\ roEmitted = << >>
    /\ roPushed = 0
    /\ roArrived = [t \in Timestamps |-> NotArrived]
    /\ roWindow = TRUE

\* ReOrderer.HandleEvent: the record joins the queue of its source
ReOrdererHandleEvent(st, cpu, ts) ==
    [st EXCEPT !.queue = [@ EXCEPT ![cpu] = Append(@, ts)]]

\* the perf map calls p.handleEvent itself
DataHandlerDirect(st, cpu, ts) ==
    [st EXCEPT !.emitted = Append(@, ts)]

\* PerfMapOptions.DataHandler
DataHandler(st, cpu, ts) == ReOrdererHandleEvent(st, cpu, ts)

\* the record arrives less than Retention generations after the first
\* arrival of every record with a later timestamp
WithinRetention(ts) ==
    \A t \in Timestamps :
        (t > ts /\ roArrived[t] # NotArrived) => roGeneration - roArrived[t] < Retention

\* a record read from the perf map of one CPU
PerfMapRecord ==
    /\ roPushed < MaxRecords
    /\ \E cpu \in Sources, ts \in Timestamps :
          LET st == DataHandler([queue |-> roQueue, emitted |-> roEmitted], cpu, ts)
          IN  /\ roQueue' = st.queue
              /\ roEmitted' = st.emitted
              /\ roWindow' = (roWindow /\ WithinRetention(ts))
              /\ roArrived' = IF roArrived[ts] = NotArrived
                              THEN [roArrived EXCEPT ![ts] = roGeneration]
                              ELSE roArrived
    /\ roPushed' = roPushed + 1
    /\ UNCHANGED << roHeap, roGeneration >>
    /\ UNCHANGED notReorder

\* the heap insertion: after the held records that are not later
HeapInsert(heap, r) ==
    LET k == Cardinality({ n \in 1..Len(heap) : heap[n].ts <= r.ts })
    IN  SubSeq(heap, 1, k) \o << r >> \o SubSeq(heap, k + 1, Len(heap))

\* drain the queues: a record older than what was already emitted is emitted
\* at once, the others are held
RECURSIVE Enqueue(_, _, _)
Enqueue(st, recs, generation) ==
    IF recs = << >> THEN st
    ELSE LET ts == Head(recs)
             last == IF st.emitted = << >> THEN 0 ELSE st.emitted[Len(st.emitted)]
         IN  IF ts < last
             THEN Enqueue([st EXCEPT !.emitted = Append(@, ts)], Tail(recs), generation)
             ELSE Enqueue([st EXCEPT !.heap =
                              HeapInsert(@, [ts |-> ts, generation |-> generation])],
                          Tail(recs), generation)

\* emit the oldest held records while they have been held long enough
RECURSIVE Dequeue(_, _)
Dequeue(st, generation) ==
    IF st.heap # << >> /\ Head(st.heap).generation + Retention <= generation
    THEN Dequeue([heap |-> Tail(st.heap),
                  emitted |-> Append(st.emitted, Head(st.heap).ts)], generation)
    ELSE st

RECURSIVE Drained(_)
Drained(cpus) ==
    IF cpus = {} THEN << >>
    ELSE LET c == CHOOSE x \in cpus : \A y \in cpus : x <= y
         IN  roQueue[c] \o Drained(cpus \ {c})

\* one tick of ReOrderer.Start
ReOrdererTick ==
    /\ roGeneration < MaxTicks
    /\ roGeneration' = roGeneration + 1
    /\ LET st == Dequeue(Enqueue([heap |-> roHeap, emitted |-> roEmitted],
                                 Drained(Sources), roGeneration),
                         roGeneration + 1)
       IN  /\ roHeap' = st.heap
           /\ roEmitted' = st.emitted
    /\ roQueue' = [c \in Sources |-> << >>]
    /\ UNCHANGED << roPushed, roArrived, roWindow >>
    /\ UNCHANGED notReorder

ReorderNext == PerfMapRecord \/ ReOrdererTick

\* ------------------------------------------------------------ process cache
\* probe.go lines 465-495 and 573-589: the fork, exec and exit records as
\* they reach the process resolver.  An entry is its cookie and whether it
\* comes from a fork; the kernel gives every exec a new cookie, and
\* kernelCookie is the cookie of the program a pid runs (0 before its first
\* exec record).

MaxCachePid == 2
MaxCookie == 3

CachePids == 1..MaxCachePid
NoCacheEntry == [Cookie |-> 0, IsFork |-> FALSE, Exited |-> FALSE, Live |-> FALSE]
NoRecord == [type |-> "none", pid |-> 0, prev |-> 0, cookie |-> 0]

ResolverInit ==
    /\ entryCache = [p \in CachePids |-> NoCacheEntry]
    /\ nextCookie = 1
    /\ kernelCookie = [p \in CachePids |-> 0]
    /\ lastRecord = NoRecord

\* ProcessResolver.AddForkEntry / AddExecEntry: the entry replaces the one
\* the pid had
AddForkEntry(cache, pid, entry) == [cache EXCEPT ![pid] = entry]
AddExecEntry(cache, pid, entry) == [cache EXCEPT ![pid] = entry]

\* ProcessResolver.Resolve(pid, tid) and the lookup by cookie
Resolve(cache, pid) == cache[pid]
ResolveCookie(cache, cookie) ==
    { p \in CachePids : cache[p].Live /\ cache[p].Cookie = cookie }

\* the exec case without the call of AddExecEntry
ExecCaseNoAdd(cache, pid, entry) == cache

\* lines 478-493: the exec case of handleEvent
ExecCase(cache, pid, entry) == AddExecEntry(cache, pid, entry)

\* a fork record of a new process
ForkRecord ==
    /\ \E ppid \in CachePids, pid \in CachePids :
          /\ ppid # pid
          /\ ~entryCache[pid].Live
          /\ entryCache' = AddForkEntry(entryCache, pid,
                 [Cookie |-> 0, IsFork |-> TRUE, Exited |-> FALSE, Live |-> TRUE])
          /\ lastRecord' = [type |-> "fork", pid |-> pid, prev |-> 0, cookie |-> 0]
    /\ UNCHANGED << nextCookie, kernelCookie >>
    /\ UNCHANGED notResolver

\* an exec record: the process of pid executes a program
ExecRecord ==
    /\ nextCookie <= MaxCookie
    /\ \E pid \in CachePids :
          /\ ~entryCache[pid].Exited
          /\ entryCache' = ExecCase(entryCache, pid,
                 [Cookie |-> nextCookie, IsFork |-> FALSE, Exited |-> FALSE, Live |-> TRUE])
          /\ lastRecord' = [type |-> "exec", pid |-> pid,
                            prev |-> kernelCookie[pid], cookie |-> nextCookie]
          /\ kernelCookie' = [kernelCookie EXCEPT ![pid] = nextCookie]
    /\ nextCookie' = nextCookie + 1
    /\ UNCHANGED notResolver

\* an exit record: the deferred DeleteEntry marks the entry as exited
ExitRecord ==
    /\ \E pid \in CachePids :
          /\ entryCache[pid].Live /\ ~entryCache[pid].Exited
          /\ entryCache' = [entryCache EXCEPT ![pid].Exited = TRUE]
          /\ lastRecord' = [type |-> "exit", pid |-> pid, prev |-> 0, cookie |-> 0]
          /\ kernelCookie' = [kernelCookie EXCEPT ![pid] = 0]
    /\ UNCHANGED nextCookie
    /\ UNCHANGED notResolver

\* DequeueExited: the exited entries that are old enough leave the table
DequeueExitedEntries ==
    /\ \E old \in (SUBSET { p \in CachePids : entryCache[p].Exited }) \ {{}} :
          entryCache' = [p \in CachePids |->
                            IF p \in old THEN NoCacheEntry ELSE entryCache[p]]
    /\ lastRecord' = NoRecord
    /\ UNCHANGED << nextCookie, kernelCookie >>
    /\ UNCHANGED notResolver

ResolverNext == ForkRecord \/ ExecRecord \/ ExitRecord \/ DequeueExitedEntries

\* ------------------------------------------------------- dump selector: Matches
\* activity_dump.go: ad.Matches(entry) for every configuration of the two
\* selectors of a dump.  "" is the empty string of an unset selector; an
\* entry outside a container has the container ID "".

SelContainerIDs == {"", "c1", "c2"}
SelComms == {"", "ls", "cat"}
SelDumps == [ContainerID : SelContainerIDs, Comm : SelComms]
NilSelEntry == [nil |-> TRUE, ContainerID |-> "", Comm |-> ""]
SelEntries ==
    [nil : {FALSE}, ContainerID : SelContainerIDs, Comm : SelComms \ {""}]
        \cup {NilSelEntry}

\* ad.CommMatches, ad.ContainerIDMatches
CommMatches(ad, comm) == ad.Comm = comm
ContainerIDMatches(ad, containerID) == ad.ContainerID = containerID

\* a Matches that accepts an entry as soon as one configured selector matches
ActivityDumpMatchesEither(ad, entry) ==
    IF entry.nil THEN FALSE
    ELSE IF ad.ContainerID # "" /\ ContainerIDMatches(ad, entry.ContainerID) THEN TRUE
    ELSE IF ad.Comm # "" /\ CommMatches(ad, entry.Comm) THEN TRUE
    ELSE ad.ContainerID = "" /\ ad.Comm = ""

\* ad.Matches(entry)
ActivityDumpMatches(ad, entry) ==
    IF entry.nil THEN FALSE
    ELSE IF ad.ContainerID # "" /\ ~ContainerIDMatches(ad, entry.ContainerID) THEN FALSE
    ELSE IF ad.Comm # "" /\ ~CommMatches(ad, entry.Comm) THEN FALSE
    ELSE TRUE

SelectorInit ==
    sel \in [ad : SelDumps, entry : SelEntries, called : {FALSE}, matches : {FALSE}]

\* no call of Matches is made
SelectorIdle == sel = [called |-> TRUE]

\* one call of ad.Matches(entry)
CallMatches ==
    /\ ~sel.called
    /\ sel' = [sel EXCEPT !.called = TRUE,
                          !.matches = ActivityDumpMatches(sel.ad, sel.entry)]
    /\ UNCHANGED notSelector

SelectorNext == CallMatches

\* ------------------------------------------------------------ SelectProbes
\* One call of Probe.SelectProbes(rs).  sp.rs is the set of event type names
\* of the rule set, sp.log the calls made on the perf map, on the
\* enabled_events map and on the manager, each with its outcome; sp.paused
\* is the state of the events perf map, sp.enabled the word stored in
\* enabled_events (NoWord until one is written).

RuleEventNames == {"*", "open", "exec", "bogus"}
NoWord == 0 - 1
NoErr == "nil"

\* model.ParseEvalEventType: UnknownEventType is 0
ParseEvalEventType(eventName) ==
    CASE eventName = "open" -> 2
      [] eventName = "exec" -> 3
      [] OTHER -> 0

\* probes.SelectorsPerEventType, probes.SyscallMonitorSelectors
SelectorsPerEventType ==
    [eventType \in {"*", "open", "exec"} |->
        CASE eventType = "*" -> {"sched_process_fork"}
          [] eventType = "open" -> {"open", "vfs_open"}
          [] eventType = "exec" -> {"execve"}]
SyscallMonitorSelectors == {"sys_enter"}

\* the probes selected for a rule set
ActivatedProbes(rs, syscallMonitor) ==
    UNION {SelectorsPerEventType[eventType] :
              eventType \in {t \in DOMAIN SelectorsPerEventType : t = "*" \/ t \in rs}}
        \cup (IF syscallMonitor THEN SyscallMonitorSelectors ELSE {})

RECURSIVE EnabledEvents(_)
\* enabledEvents |= 1 << (eventType - 1), over the event types of the rule set
EnabledEvents(names) ==
    IF names = {} THEN 0
    ELSE LET n == CHOOSE x \in names : TRUE
         IN (IF n = "*" THEN 0 ELSE 2 ^ (ParseEvalEventType(n) - 1))
                + EnabledEvents(names \ {n})

SelectProbesInit ==
    sp \in [rs : SUBSET RuleEventNames, syscallMonitor : BOOLEAN, pc : {"idle"},
            activatedProbes : {{}}, enabledEvents : {0}, enabled : {NoWord},
            paused : {FALSE}, log : {<< >>}, err : {NoErr}, updated : {{}}]

\* no call of SelectProbes is made
SelectProbesIdle == sp = [pc |-> "off"]

\* the list of activated probes is built and the enabled_events map fetched
SelectProbesStart(ok) ==
    /\ sp.pc = "idle"
    /\ sp' = [sp EXCEPT !.activatedProbes = ActivatedProbes(sp.rs, sp.syscallMonitor),
                        !.log = Append(@, <<"Map", ok>>),
                        !.pc = IF ok THEN "events" ELSE "returned",
                        !.err = IF ok THEN NoErr ELSE "map"]
    /\ UNCHANGED notSelectProbes

\* the loop over rs.GetEventTypes()
SelectProbesEvents ==
    /\ sp.pc = "events"
    /\ IF \E eventName \in sp.rs : eventName # "*" /\ ParseEvalEventType(eventName) = 0
       THEN sp' = [sp EXCEPT !.pc = "returned", !.err = "unknown event type"]
       ELSE sp' = [sp EXCEPT !.pc = "pause", !.enabledEvents = EnabledEvents(sp.rs)]
    /\ UNCHANGED notSelectProbes

\* p.perfMap.Pause(); on success Resume is deferred
SelectProbesPause(ok) ==
    /\ sp.pc = "pause"
    /\ sp' = [sp EXCEPT !.log = Append(@, <<"Pause", ok>>),
                        !.paused = IF ok THEN TRUE ELSE @,
                        !.pc = IF ok THEN "put" ELSE "returned",
                        !.err = IF ok THEN NoErr ELSE "pause"]
    /\ UNCHANGED notSelectProbes

\* the same with Resume called only on the way past the write, not deferred
SelectProbesPutNoDefer(ok) ==
    /\ sp.pc = "put"
    /\ sp' = [sp EXCEPT !.log = Append(@, <<"Put", ok>>),
                        !.enabled = IF ok THEN sp.enabledEvents ELSE @,
                        !.pc = IF ok THEN "update" ELSE "returned",
                        !.err = IF ok THEN NoErr ELSE "failed to set enabled events"]
    /\ UNCHANGED notSelectProbes

\* enabledEventsMap.Put(ebpf.ZeroUint32MapItem, enabledEvents)
SelectProbesPut(ok) ==
    /\ sp.pc = "put"
    /\ sp' = [sp EXCEPT !.log = Append(@, <<"Put", ok>>),
                        !.enabled = IF ok THEN sp.enabledEvents ELSE @,
                        !.pc = IF ok THEN "update" ELSE "resume",
                        !.err = IF ok THEN NoErr ELSE "failed to set enabled events"]
    /\ UNCHANGED notSelectProbes

\* return p.manager.UpdateActivatedProbes(activatedProbes)
SelectProbesUpdate(ok) ==
    /\ sp.pc = "update"
    /\ sp' = [sp EXCEPT !.log = Append(@, <<"UpdateActivatedProbes", ok>>),
                        !.updated = IF ok THEN sp.activatedProbes ELSE @,
                        !.pc = "resume",
                        !.err = IF ok THEN NoErr ELSE "update"]
    /\ UNCHANGED notSelectProbes

\* the deferred p.perfMap.Resume(): its error is logged and not returned
SelectProbesResume(ok) ==
    /\ sp.pc = "resume"
    /\ sp' = [sp EXCEPT !.log = Append(@, <<"Resume", ok>>),
                        !.paused = IF ok THEN FALSE ELSE @,
                        !.pc = "returned"]
    /\ UNCHANGED notSelectProbes

SelectProbesNext ==
    \/ \E ok \in BOOLEAN : SelectProbesStart(ok)
    \/ SelectProbesEvents
    \/ \E ok \in BOOLEAN : SelectProbesPause(ok)
    \/ \E ok \in BOOLEAN : SelectProbesPut(ok)
    \/ \E ok \in BOOLEAN : SelectProbesUpdate(ok)
    \/ \E ok \in BOOLEAN : SelectProbesResume(ok)

\* ------------------------------------------------------------ traced pids
\* The kernel map of traced pids (adm.tracedPIDsMap) shared by the dumps.
\* tp.stored is the timeout stored for each pid, 0 when the map has no
\* entry; tp.deadline is what ComputeMonotonicTimestamp(Start + Timeout)
\* gives for each dump and tp.timeoutRaw the value a dump has cached;
\* tp.registered are the dumps that have called for a pid, tp.last the last
\* call and tp.failed tells that a map operation has failed so far.

NumTpDumps == 2
MaxTpPid == 1
MaxDeadline == 2
TpDumps == 1..NumTpDumps
TpPids == 1..MaxTpPid
NoTpCall == [d |-> 0, pid |-> 0, before |-> 0, lookupOk |-> TRUE, putOk |-> TRUE]

TracedPidsInit ==
    tp \in [stored : {[pid \in TpPids |-> 0]},
            deadline : [TpDumps -> 1..MaxDeadline],
            timeoutRaw : {[d \in TpDumps |-> 0]},
            registered : {[pid \in TpPids |-> {}]},
            last : {NoTpCall}, failed : {FALSE}]

\* no dump calls UpdateTracedPidTimeout
TracedPidsIdle == tp = [stored |-> << >>]

\* ad.GetTimeoutRawTimestamp(): the cached value, computed when it is 0
GetTimeoutRawTimestamp(d) ==
    IF tp.timeoutRaw[d] = 0 THEN tp.deadline[d] ELSE tp.timeoutRaw[d]

\* the same with the Put made whatever the timeout that was looked up
UpdateTracedPidTimeoutAlways(d, pid, lookupOk, putOk) ==
    /\ LET timeout == IF lookupOk THEN tp.stored[pid] ELSE 0
           raw == GetTimeoutRawTimestamp(d)
           put == TRUE
       IN tp' = [tp EXCEPT
                   !.timeoutRaw[d] = raw,
                   !.stored[pid] = IF put /\ putOk THEN raw ELSE @,
                   !.registered[pid] = @ \cup {d},
                   !.last = [d |-> d, pid |-> pid, before |-> tp.stored[pid],
                             lookupOk |-> lookupOk, putOk |-> putOk],
                   !.failed = @ \/ (~lookupOk /\ tp.stored[pid] # 0) \/ (put /\ ~putOk)]
    /\ UNCHANGED notTracedPids

\* ad.UpdateTracedPidTimeout(pid) of dump d: the errors of Lookup and of Put
\* are dropped, a failed Lookup leaves timeout at 0
UpdateTracedPidTimeoutCall(d, pid, lookupOk, putOk) ==
    /\ LET timeout == IF lookupOk THEN tp.stored[pid] ELSE 0
           raw == GetTimeoutRawTimestamp(d)
           put == timeout < raw
       IN tp' = [tp EXCEPT
                   !.timeoutRaw[d] = raw,
                   !.stored[pid] = IF put /\ putOk THEN raw ELSE @,
                   !.registered[pid] = @ \cup {d},
                   !.last = [d |-> d, pid |-> pid, before |-> tp.stored[pid],
                             lookupOk |-> lookupOk, putOk |-> putOk],
                   !.failed = @ \/ (~lookupOk /\ tp.stored[pid] # 0) \/ (put /\ ~putOk)]
    /\ UNCHANGED notTracedPids

TracedPidsNext ==
    \E d \in TpDumps, pid \in TpPids, lookupOk \in BOOLEAN, putOk \in BOOLEAN :
        UpdateTracedPidTimeoutCall(d, pid, lookupOk, putOk)

\* ------------------------------------------------------------ SendStats
\* The counters of one dump under Insert and SendStats running in two
\* goroutines.  stats.count is the value of each counter, stats.made the number of
\* atomic.AddUint64 made on it, stats.handed the sum of the values given to the
\* statsd client; stats.todo are the increments the running Insert still has to
\* make, stats.toSend the counters the running SendStats still has to visit and
\* stats.value the value it has swapped out and not yet handed over.

StatCounters == {"processedCount[open]", "addedRuntimeCount[open]", "addedRuntimeCount[exec]"}
MaxStatInserts == 3
MaxSends == 2

\* the increments of one Insert call, in the order they are made: that of a
\* created process node, that of a processed event, the deferred one of a
\* new entry
InsertIncrements ==
    {<< >>, <<"addedRuntimeCount[exec]">>, <<"processedCount[open]">>,
     <<"addedRuntimeCount[exec]", "processedCount[open]">>,
     <<"processedCount[open]", "addedRuntimeCount[open]">>,
     <<"addedRuntimeCount[exec]", "processedCount[open]", "addedRuntimeCount[open]">>}

\* the orders in which SendStats ranges over the counters: processedCount
\* first, then addedRuntimeCount in the order of the map iteration
SendOrders ==
    {<<"processedCount[open]", "addedRuntimeCount[open]", "addedRuntimeCount[exec]">>,
     <<"processedCount[open]", "addedRuntimeCount[exec]", "addedRuntimeCount[open]">>}

StatsInit ==
    stats = [count |-> [c \in StatCounters |-> 0], made |-> [c \in StatCounters |-> 0],
          handed |-> [c \in StatCounters |-> 0],
          ipc |-> "idle", todo |-> << >>, inserts |-> 0,
          spc |-> "idle", toSend |-> << >>, value |-> 0, sends |-> 0,
          clientFailed |-> FALSE]

\* no Insert and no SendStats is called
StatsIdle == stats = [ipc |-> "off", spc |-> "off"]

\* Insert is entered: the event decides which counters it will increment
StatsInsert(increments) ==
    /\ stats.ipc = "idle"
    /\ stats.inserts < MaxStatInserts
    /\ stats' = [stats EXCEPT !.ipc = IF increments = << >> THEN "idle" ELSE "insert",
                        !.todo = increments, !.inserts = @ + 1]
    /\ UNCHANGED notStats

\* atomic.AddUint64(counter, 1)
StatsInsertAdd ==
    /\ stats.ipc = "insert"
    /\ LET c == Head(stats.todo) IN
       stats' = [stats EXCEPT !.count[c] = @ + 1, !.made[c] = @ + 1,
                        !.todo = Tail(@),
                        !.ipc = IF Len(stats.todo) = 1 THEN "idle" ELSE "insert"]
    /\ UNCHANGED notStats

\* SendStats is entered
SendStats(order) ==
    /\ stats.spc = "idle"
    /\ stats.sends < MaxSends
    /\ stats' = [stats EXCEPT !.spc = "swap", !.toSend = order, !.sends = @ + 1]
    /\ UNCHANGED notStats

\* the same with the counter read and left as it is
SendStatsLoad ==
    /\ stats.spc = "swap"
    /\ LET c == Head(stats.toSend)
           value == stats.count[c]
       IN stats' = [stats EXCEPT !.value = value,
                           !.toSend = IF value > 0 THEN @ ELSE Tail(@),
                           !.spc = IF value > 0 THEN "count"
                                   ELSE IF Len(stats.toSend) = 1 THEN "idle" ELSE "swap"]
    /\ UNCHANGED notStats

\* value := atomic.SwapUint64(count, 0); a value of 0 is not sent
SendStatsSwap ==
    /\ stats.spc = "swap"
    /\ LET c == Head(stats.toSend)
           value == stats.count[c]
       IN stats' = [stats EXCEPT !.count[c] = 0,
                           !.value = value,
                           !.toSend = IF value > 0 THEN @ ELSE Tail(@),
                           !.spc = IF value > 0 THEN "count"
                                   ELSE IF Len(stats.toSend) = 1 THEN "idle" ELSE "swap"]
    /\ UNCHANGED notStats

\* statsdClient.Count(metric, value, tags, 1.0); its error ends SendStats
SendStatsCount(ok) ==
    /\ stats.spc = "count"
    /\ LET c == Head(stats.toSend) IN
       stats' = [stats EXCEPT !.handed[c] = IF ok THEN @ + stats.value ELSE @,
                        !.value = 0,
                        !.clientFailed = @ \/ ~ok,
                        !.toSend = IF ok THEN Tail(@) ELSE << >>,
                        !.spc = IF ok /\ Len(stats.toSend) > 1 THEN "swap" ELSE "idle"]
    /\ UNCHANGED notStats

StatsNext ==
    \/ \E increments \in InsertIncrements : StatsInsert(increments)
    \/ StatsInsertAdd
    \/ \E order \in SendOrders : SendStats(order)
    \/ SendStatsSwap
    \/ \E ok \in BOOLEAN : SendStatsCount(ok)

\* ------------------------------------------------------------ specifications

FlushNext ==
    \/ \E i \in Callers : FlushFreeze(i)
    \/ \E i \in Callers : FlushCAS(i)
    \/ \E i \in Callers : FlushIterateInodes(i)
    \/ \E i \in Callers : FlushIteratePids(i)
    \/ \E i \in Callers : FlushExpireInode(i)
    \/ \E i \in Callers : FlushDeletePid(i)
    \/ \E i \in Callers : FlushUnfreezeStore(i)
    \/ \E i \in Callers : FlushUnfreezePut(i)
    \/ \E k \in DiscarderInputs : OnNewDiscarder(k)
    \/ OnNewDiscarderHandle

\* the configuration under which the other components are run
FlushIdle == FlushInit /\ FlushDiscarderWindow = 0 /\ EnableDiscarders = TRUE

FlushSpecInit == FlushInit /\ ApprInit /\ EventInit /\ CloseInit /\ NewProbeInit /\ TrieInit /\ DumpIdle /\ MatchIdle /\ RefIdle /\ LockInit /\ ReorderInit /\ ResolverInit /\ SelectorIdle /\ SelectProbesIdle /\ TracedPidsIdle /\ StatsIdle
SpecFlush == FlushSpecInit /\ [][FlushNext]_vars

ApprSpecInit == FlushIdle /\ ApprInit /\ EventInit /\ CloseInit /\ NewProbeInit /\ TrieInit /\ DumpIdle /\ MatchIdle /\ RefIdle /\ LockInit /\ ReorderInit /\ ResolverInit /\ SelectorIdle /\ SelectProbesIdle /\ TracedPidsIdle /\ StatsIdle
SpecApprovers == ApprSpecInit /\ [][ApprNext]_vars

EventSpecInit == FlushIdle /\ ApprInit /\ EventInit /\ CloseInit /\ NewProbeInit /\ TrieInit /\ DumpIdle /\ MatchIdle /\ RefIdle /\ LockInit /\ ReorderInit /\ ResolverInit /\ SelectorIdle /\ SelectProbesIdle /\ TracedPidsIdle /\ StatsIdle
SpecEvent == EventSpecInit /\ [][EventNext]_vars

CloseSpecInit == FlushIdle /\ ApprInit /\ EventInit /\ CloseInit /\ NewProbeInit /\ TrieInit /\ DumpIdle /\ MatchIdle /\ RefIdle /\ LockInit /\ ReorderInit /\ ResolverInit /\ SelectorIdle /\ SelectProbesIdle /\ TracedPidsIdle /\ StatsIdle
SpecClose == CloseSpecInit /\ [][CloseNext]_vars

NewProbeSpecInit == FlushIdle /\ ApprInit /\ EventInit /\ CloseInit /\ NewProbeInit /\ TrieInit /\ DumpIdle /\ MatchIdle /\ RefIdle /\ LockInit /\ ReorderInit /\ ResolverInit /\ SelectorIdle /\ SelectProbesIdle /\ TracedPidsIdle /\ StatsIdle
SpecNewProbe == NewProbeSpecInit /\ [][NewProbeNext]_vars

TrieSpecInit == FlushIdle /\ ApprInit /\ EventInit /\ CloseInit /\ NewProbeInit /\ TrieInit /\ DumpIdle /\ MatchIdle /\ RefIdle /\ LockInit /\ ReorderInit /\ ResolverInit /\ SelectorIdle /\ SelectProbesIdle /\ TracedPidsIdle /\ StatsIdle
SpecTrie == TrieSpecInit /\ [][TrieNext]_vars

DumpSpecInit == FlushIdle /\ ApprInit /\ EventInit /\ CloseInit /\ NewProbeInit /\ TrieInit /\ DumpInit /\ MatchIdle /\ RefIdle /\ LockInit /\ ReorderInit /\ ResolverInit /\ SelectorIdle /\ SelectProbesIdle /\ TracedPidsIdle /\ StatsIdle
SpecDump == DumpSpecInit /\ [][DumpNext]_vars

MatchSpecInit == FlushIdle /\ ApprInit /\ EventInit /\ CloseInit /\ NewProbeInit /\ TrieInit /\ DumpIdle /\ MatchInit /\ RefIdle /\ LockInit /\ ReorderInit /\ ResolverInit /\ SelectorIdle /\ SelectProbesIdle /\ TracedPidsIdle /\ StatsIdle
SpecMatch == MatchSpecInit /\ [][MatchNext]_vars

RefSpecInit == FlushIdle /\ ApprInit /\ EventInit /\ CloseInit /\ NewProbeInit /\ TrieInit /\ DumpIdle /\ MatchIdle /\ RefInit /\ LockInit /\ ReorderInit /\ ResolverInit /\ SelectorIdle /\ SelectProbesIdle /\ TracedPidsIdle /\ StatsIdle
SpecRefCount == RefSpecInit /\ [][RefNext]_vars

LockSpecInit == FlushIdle /\ ApprInit /\ EventInit /\ CloseInit /\ NewProbeInit /\ TrieInit /\ DumpIdle /\ MatchIdle /\ RefIdle /\ LockInit /\ ReorderInit /\ ResolverInit /\ SelectorIdle /\ SelectProbesIdle /\ TracedPidsIdle /\ StatsIdle
SpecLock == LockSpecInit /\ [][LockNext]_vars

ReorderSpecInit == FlushIdle /\ ApprInit /\ EventInit /\ CloseInit /\ NewProbeInit /\ TrieInit /\ DumpIdle /\ MatchIdle /\ RefIdle /\ LockInit /\ ReorderInit /\ ResolverInit /\ SelectorIdle /\ SelectProbesIdle /\ TracedPidsIdle /\ StatsIdle
SpecReorder == ReorderSpecInit /\ [][ReorderNext]_vars

ResolverSpecInit == FlushIdle /\ ApprInit /\ EventInit /\ CloseInit /\ NewProbeInit /\ TrieInit /\ DumpIdle /\ MatchIdle /\ RefIdle /\ LockInit /\ ReorderInit /\ ResolverInit /\ SelectorIdle /\ SelectProbesIdle /\ TracedPidsIdle /\ StatsIdle
SpecResolver == ResolverSpecInit /\ [][ResolverNext]_vars

SelectorSpecInit == FlushIdle /\ ApprInit /\ EventInit /\ CloseInit /\ NewProbeInit /\ TrieInit /\ DumpIdle /\ MatchIdle /\ RefIdle /\ LockInit /\ ReorderInit /\ ResolverInit /\ SelectorInit /\ SelectProbesIdle /\ TracedPidsIdle /\ StatsIdle
SpecSelector == SelectorSpecInit /\ [][SelectorNext]_vars

SelectProbesSpecInit == FlushIdle /\ ApprInit /\ EventInit /\ CloseInit /\ NewProbeInit /\ TrieInit /\ DumpIdle /\ MatchIdle /\ RefIdle /\ LockInit /\ ReorderInit /\ ResolverInit /\ SelectorIdle /\ SelectProbesInit /\ TracedPidsIdle /\ StatsIdle
SpecSelectProbes == SelectProbesSpecInit /\ [][SelectProbesNext]_vars

TracedPidsSpecInit == FlushIdle /\ ApprInit /\ EventInit /\ CloseInit /\ NewProbeInit /\ TrieInit /\ DumpIdle /\ MatchIdle /\ RefIdle /\ LockInit /\ ReorderInit /\ ResolverInit /\ SelectorIdle /\ SelectProbesIdle /\ TracedPidsInit /\ StatsIdle
SpecTracedPids == TracedPidsSpecInit /\ [][TracedPidsNext]_vars

StatsSpecInit == FlushIdle /\ ApprInit /\ EventInit /\ CloseInit /\ NewProbeInit /\ TrieInit /\ DumpIdle /\ MatchIdle /\ RefIdle /\ LockInit /\ ReorderInit /\ ResolverInit /\ SelectorIdle /\ SelectProbesIdle /\ TracedPidsIdle /\ StatsInit
SpecStats == StatsSpecInit /\ [][StatsNext]_vars

\* the steps of one FlushDiscarders invocation and of its goroutine
FlushCallerStep(i) ==
    \/ FlushFreeze(i) \/ FlushCAS(i) \/ FlushIterateInodes(i)
    \/ FlushIteratePids(i) \/ FlushExpireInode(i) \/ FlushDeletePid(i)
    \/ FlushUnfreezeStore(i) \/ FlushUnfreezePut(i)

\* the Go scheduler lets every started call and goroutine run on
FairSpecFlush == SpecFlush /\ \A i \in Callers : WF_vars(FlushCallerStep(i))

\* ---------------------------------------------------------- claims C1 - C4

\* caller i is past the compare-and-swap, enumerating or deleting
FlushActive(i) ==
    Admitted(i) /\ (fpc[i] \in {"iterInodes", "iterPids", "flush"} \/ gpc[i] = "run")

\* two FlushDiscarders calls have both returned, one admitted and the other
\* rejected with "already flushing discarders"
BothReturned ==
    \E i, j \in Callers :
        fpc[i] = "done" /\ fpc[j] = "done" /\ fret[i] = "nil" /\ fret[j] = "already"

C2_NoHandlerDuringFlush == dpc = "handler" => ~dDuringFlush

\* C3 as stated: at most one FlushDiscarders invocation at a time is past the
\* compare-and-swap, enumerating or deleting discarders.
C3_SingleFlusher == Cardinality({i \in Callers : FlushActive(i)}) <= 1

FlushEventuallyUnfrozen ==
    /\ \A i \in Callers : (casSaw[i] = 0) ~> (fpc[i] \in {"unfreezePut", "done"})
    /\ (flushingDiscarders = 1) ~> (flushingDiscarders = 0)

Logged(kind) == {alog[i][2] : i \in {n \in 1..Len(alog) : alog[n][1] = kind}}

\* C5: within one SetApprovers invocation for an event type that has an
\* approver handler, no Remove call precedes an Apply call: every new approver
\* is applied before any previously applied approver is removed.
C5_ApplyBeforeRemove ==
    \A i, j \in 1..Len(alog) :
        i < j => ~(alog[i][1] = "Remove" /\ alog[j][1] = "Apply")

\* an invocation has applied a new approver, removed a previous one and
\* returned nil
C5_Witness ==
    /\ apc = "idle" /\ aret = "nil"
    /\ Logged("Apply") # {} /\ Logged("Remove") # {}

\* C6: after a SetApprovers call for an event type returns nil, the approvers
\* removed are exactly those recorded for the type before the call that are
\* not in the new set, and the recorded set of the type is the new set (a type
\* without handler has no new set: nothing is applied, removed or recorded);
\* while no call has failed, the recorded set of every type is the set of
\* approvers applied in the kernel for that type.
C6_RecordedIsApplied ==
    /\ (apc = "idle" /\ aret = "nil" /\ aType \in HandledTypes) =>
            /\ Logged("Remove") = aPrev \ newApprovers
            /\ Recorded(aType) = newApprovers
    /\ (apc = "idle" /\ aret = "nil" /\ aType \notin HandledTypes) =>
            /\ alog = << >>
            /\ Recorded(aType) = {}
    /\ (apc = "idle" /\ ~anyFailed) =>
            \A et \in HandledTypes : kernelApprovers[et] = Recorded(et)

\* a second successful call for a type has replaced a non-empty recorded set
\* by another one, keeping one approver and removing one
C6_Witness ==
    /\ apc = "idle" /\ aret = "nil" /\ ~anyFailed /\ aType \in HandledTypes
    /\ aPrev \ newApprovers # {} /\ aPrev \cap newApprovers # {}
    /\ kernelApprovers[aType] = newApprovers

\* --------------------------------------------------------- claims C7 - C10

\* the call was made for the current (or last) record
InLog(call) == \E n \in 1..Len(hlog) : hlog[n] = call

\* handleEvent has returned from a record whose header, contexts and payload
\* all decoded
Returned == hpc = "idle" /\ rec.typ # "none"

\* C7: for a successful (retval >= 0) rmdir, unlink, rename or link event the
\* dentry cache entry of the (mount id, inode) is invalidated only after the
\* dispatch of that event to the handler and the monitor has returned, and
\* before the next record is handled: when handleEvent returns the
\* invalidation was its last call and the entry is not cached, even if the
\* dispatch cached it again; for retval < 0 no invalidation is scheduled.
C7_InvalidateAfterDispatch ==
    rec.typ \in InvalidatingTypes =>
        /\ \A i, j \in 1..Len(hlog) :
                (hlog[i] = "invalidateDentry" /\ hlog[j] \in {"HandleEvent", "ProcessEvent"})
                    => j < i
        /\ (Returned /\ rec.fail = "none" /\ rec.retval >= 0) =>
                /\ InLog("ProcessEvent")
                /\ hlog[Len(hlog)] = "invalidateDentry"
                /\ (rec.mount # 0 /\ rec.inode # 0) =>
                        << rec.mount, rec.inode >> \notin dentryCache
        /\ rec.retval < 0 => (deferred = << >> /\ ~InLog("invalidateDentry"))

\* an unlink succeeded, the dispatch of its event cached the dentry again, and
\* handleEvent returned with the entry invalidated
C7_Witness ==
    /\ Returned /\ rec.typ = "unlink" /\ rec.fail = "none" /\ rec.retval >= 0
    /\ << rec.mount, rec.inode >> \in addedNow
    /\ << rec.mount, rec.inode >> \notin dentryCache
    /\ InLog("HandleEvent")

\* the calls that change the state of a resolver
ResolverMutations ==
    {"DelCacheEntries", "setRevision", "MountResolver.Delete", "MountResolver.Insert",
     "invalidateDentry", "UpdateArgsEnvs", "ApplyBootTime", "AddForkEntry",
     "ResolveNewProcessCacheEntryContext", "AddExecEntry", "DequeueExited",
     "DeleteEntry", "UpdateUID", "UpdateGID", "UpdateCapset"}

\* C8 as stated: for every event type, a record whose header, contexts or
\* payload fails to decode is dropped: it is not dispatched to the event
\* handler or the monitor and no resolver is changed on its account.
C8_DroppedOnDecodeError ==
    (Returned /\ rec.fail # "none") =>
        /\ ~InLog("HandleEvent") /\ ~InLog("ProcessEvent")
        /\ \A n \in 1..Len(hlog) : hlog[n] \notin ResolverMutations
        /\ dentryCache = cachedBefore

\* C9 as stated: mount-released, invalidate-dentry and args-envs records have
\* no effect but on the dentry and mount resolvers, the inode discarder
\* revisions and the args/envs cache (and are neither context-decoded nor
\* dispatched).
C9_Original ==
    [][rec'.typ \in NoDispatchTypes =>
            /\ UNCHANGED << perfCount, procState, creds >>
            /\ hpc' \in {"idle", "nodispatch"}]_vars

\* C9 amended: mount-released, invalidate-dentry and args-envs records are
\* counted by the perf buffer monitor like every record whose header decodes;
\* apart from that they are handled before any context decode, are never
\* dispatched to the handler or the monitor, and change nothing but the dentry
\* and mount resolvers, the inode discarder revisions and the args/envs cache.
C9_Amended ==
    [][rec'.typ \in NoDispatchTypes =>
            /\ UNCHANGED << procState, creds >>
            /\ perfCount' \in {perfCount, perfCount + 1}
            /\ hpc' \in {"idle", "nodispatch"}
            /\ \A n \in 1..Len(hlog') :
                    hlog'[n] \in {"CountEvent", "DelCacheEntries", "setRevision",
                                  "MountResolver.Delete", "invalidateDentry",
                                  "UpdateArgsEnvs"}]_vars

\* a mount-released record of an overlay mount has been handled: the revision
\* of the mount is set, the mount is gone from the mount resolver, its dentry
\* paths from the cache, and the record was counted
C9_Witness ==
    /\ Returned /\ rec.typ = "mount_released" /\ rec.fail = "none"
    /\ InLog("setRevision") /\ revisions[rec.mount] = rec.rev /\ rec.rev # 0
    /\ mounts[rec.mount] = "absent"
    /\ \E k \in cachedBefore : k[1] = rec.mount
    /\ perfCount = MaxEvents

\* C10: no dentry path cached under mount id M before a mount or
\* mount-released event for M is still cached once the event has been handled
\* (a path the dispatch of the mount event itself resolves is cached anew);
\* after a mount event for M immediately followed by a mount-released event
\* for M the dentry cache holds no path of M and the mount resolver no
\* metadata for M.
C10_NoStalePaths ==
    /\ (Returned /\ rec.fail = "none" /\ rec.typ \in {"mount", "mount_released"}) =>
            \A k \in cachedBefore :
                k[1] = rec.mount => (k \notin dentryCache \/ k \in addedNow)
    /\ (Returned /\ rec.fail = "none" /\ rec.typ = "mount_released") =>
            addedNow = {}
    /\ (Returned /\ rec.fail = "none" /\ rec.typ = "mount_released"
            /\ prevMount = rec.mount) =>
            /\ \A k \in dentryCache : k[1] # rec.mount
            /\ mounts[rec.mount] = "absent"

\* a mount event for M, whose dispatch cached a path under M, was followed by
\* a mount-released event for M, and nothing of M is left
C10_Witness ==
    /\ Returned /\ rec.typ = "mount_released" /\ rec.fail = "none"
    /\ prevMount = rec.mount
    /\ \E k \in cachedBefore : k[1] = rec.mount
    /\ \A k \in dentryCache : k[1] # rec.mount
    /\ mounts[rec.mount] = "absent"

\* -------------------------------------------------------- claims C11 - C20

\* C11 as stated: Close cancels the context, then waits for the reorderer and
\* the monitor, then stops the manager, and only then closes the resolvers;
\* once the resolvers are closed no task of the pipeline (event handling,
\* monitor, background paced discarder flush) uses a resolver or a discarder
\* table.
C11_NoAccessAfterClose ==
    /\ resolversClosed =>
            /\ ctxCancelled /\ WaitGroupEmpty /\ managerState # "started"
    /\ lateAccess = "none"

\* the part of C11 that Close does ensure: the order of its steps, and no use
\* of a resolver by the reorderer or the monitor after the resolvers' close
CloseOrder ==
    /\ resolversClosed =>
            /\ ctxCancelled /\ WaitGroupEmpty /\ managerState # "started"
    /\ lateAccess \notin {"reorderer", "monitor"}

\* C12 as stated: when the detected kernel is neither an RH7 nor an RH8 kernel
\* and its version code is below 4.15, NewProbe returns an error and no probe.
C12_UnsupportedKernelAborts ==
    (npc = "returned" /\ VerifyOSVersion(kernelVersion) = "error") => nret = "error"

\* ---- C13 ----------------------------------------------------------------
\* the segments of an absolute path, and the nodes a path needs in the trie
SegsOf(p) == CHOOSE ss \in SegSeqs : AbsPath(ss) = p
Prefixes(ss) == { SubSeq(ss, 1, n) : n \in 1..Len(ss) }
OpenedNodes == { k \in DOMAIN Files : Files[k].Open }

TrieIdempotent ==
    /\ lastInsert.dup => (lastInsert.ret = FALSE /\ lastInsert.added = 0)
    /\ DOMAIN Files = UNION { Prefixes(SegsOf(p)) : p \in inserted }

\* C13 (as stated): inserting a path that was already inserted adds no node
\* and returns false; the trie has exactly one node per distinct segment-wise
\* prefix of the inserted paths and exactly one terminal (opened) node per
\* distinct inserted path.
C13_Original ==
    /\ TrieIdempotent
    /\ OpenedNodes = { SegsOf(p) : p \in inserted }

\* C13 (amended): as above, but only the inserted paths that have at least
\* one segment own a terminal node; an open of the root path "/" is dropped
\* by ProcessActivityNode.InsertFileEvent and leaves no node.
C13_Amended ==
    /\ TrieIdempotent
    /\ OpenedNodes = { SegsOf(p) : p \in inserted } \ { << >> }
    /\ lastInsert.path = <<"/">> => (lastInsert.ret = FALSE /\ lastInsert.added = 0)

\* a two-segment path inserted a second time, after its parent directory
\* was opened too
C13_Witness ==
    /\ lastInsert.dup
    /\ Len(SegsOf(lastInsert.path)) = 2
    /\ SubSeq(SegsOf(lastInsert.path), 1, 1) \in OpenedNodes
    /\ SegsOf(lastInsert.path) \in OpenedNodes

\* ---- C14 ----------------------------------------------------------------
LsRoots ==
    { k \in Roots(ProcessActivityTree) :
        Entry(ProcessActivityTree[k].Process).PathnameStr = "/bin/ls" }

\* C14: after a fork of pid 100 from pid 1, an exec of /bin/ls in pid 100 and
\* an open of /etc/passwd by pid 100, the dump (selector comm "ls", tracing
\* open) has exactly one root process node, for /bin/ls, whose Files map has
\* a node "etc" with a child "passwd" that carries Open metadata.
C14_EndToEnd ==
    scenario = Len(Scenario) =>
        /\ Cardinality(Roots(ProcessActivityTree)) = 1
        /\ Cardinality(LsRoots) = 1
        /\ \A k \in LsRoots :
              /\ << <<"e", "t", "c">> >> \in DOMAIN ProcessActivityTree[k].Files
              /\ << <<"e", "t", "c">>, <<"p", "a", "s", "s", "w", "d">> >>
                     \in DOMAIN ProcessActivityTree[k].Files
              /\ ProcessActivityTree[k].Files[
                     << <<"e", "t", "c">>, <<"p", "a", "s", "s", "w", "d">> >>].Open

\* the three events of the scenario have been inserted, in that order
C14_Witness ==
    /\ scenario = Len(Scenario)
    /\ nEvents = Len(Scenario)
    /\ lastFind.entry = 3
    /\ lastFind.node # NilNode

\* ---- C15 ----------------------------------------------------------------
RECURSIVE NoForkChain(_)
NoForkChain(e) ==
    IF e = NilEntry THEN {} ELSE {e} \cup NoForkChain(GetNextAncestorNoFork(e))

IndexedByCookie(e) == Entry(e).Cookie > 0 /\ Entry(e).Cookie \in DOMAIN CookiesNode

\* the node an entry resolves to in a tree, without creating anything
RECURSIVE ResolvesTo(_, _, _, _)
ResolvesTo(tree, cookies, e, matchArgs) ==
    IF e = NilEntry THEN NilNode
    ELSE IF Entry(e).Cookie > 0 /\ Entry(e).Cookie \in DOMAIN cookies
    THEN cookies[Entry(e).Cookie]
    ELSE LET p == ResolvesTo(tree, cookies, GetNextAncestorNoFork(e), matchArgs)
             siblings == IF p = NilNode THEN Roots(tree) ELSE Children(tree, p)
             matching == { k \in siblings :
                             ProcessMatches(Entry(tree[k].Process), Entry(e), matchArgs) }
         IN  IF (p = NilNode /\ ~AdMatches(e)) \/ matching = {}
             THEN NilNode ELSE FirstOf(matching)

FindStep == nEvents' = nEvents + 1 /\ lastFind'.called

FindReturnsNodeIff ==
    LET e == lastFind'.entry
    IN  lastFind'.node # NilNode <=>
            /\ e # NilEntry
            /\ \E x \in NoForkChain(e) : IndexedByCookie(x) \/ AdMatches(x)

FindAttaches ==
    LET e == lastFind'.entry
        node == lastFind'.node
        parentNode == ResolvesTo(ProcessActivityTree', CookiesNode',
                                 GetNextAncestorNoFork(e), DifferentiateArgs)
    IN  e # NilEntry =>
            IF parentNode # NilNode
            THEN node \in Children(ProcessActivityTree', parentNode)
            ELSE /\ node # NilNode <=> AdMatches(e)
                 /\ node # NilNode => node \in Roots(ProcessActivityTree')

\* C15: FindOrCreateProcessActivityNode(entry) returns a node iff the entry
\* is non-nil and the entry or an entry of its non-fork ancestor chain is
\* already indexed by cookie or matches the selector; when the nearest
\* non-fork ancestor resolves to a tree node the returned node is a child of
\* that node whatever the selector says, and otherwise the returned node is a
\* root and exists only when the entry itself matches the selector.
C15_FindOrCreate == [][FindStep => (FindReturnsNodeIff /\ FindAttaches)]_vars

\* /bin/cat, which does not match comm "ls", was attached below its parent ls
C15_Witness ==
    /\ lastFind.called
    /\ lastFind.entry = 4
    /\ ~AdMatches(4)
    /\ Len(lastFind.node) = 2
    /\ ProcessActivityTree[lastFind.node].Process = 4

\* ---- C16 ----------------------------------------------------------------
ArgSet(argv) == { argv[i] : i \in 1..Len(argv) }

\* C16: with argument differentiation enabled, Matches is true exactly when
\* comm, executable path and credentials are equal and the two argv lists are
\* equal as sets, and the result is the same when the lists are exchanged.
C16_ArgvSetEquality ==
    (mResult.called /\ mMatchArgs) =>
        /\ mResult.matches <=>
              /\ mNode.Comm = mEntry.Comm
              /\ mNode.PathnameStr = mEntry.PathnameStr
              /\ mNode.Credentials = mEntry.Credentials
              /\ ArgSet(mNode.Argv) = ArgSet(mEntry.Argv)
        /\ mResult.matches = mResult.swapped

\* ---- C17 ----------------------------------------------------------------
\* the number of process nodes of the tree that hold cache entry c as their
\* args entry, plus those that hold it as their envs entry
HeldByTree(c) ==
    Cardinality({ k \in DOMAIN ProcessActivityTree :
                    Entry(ProcessActivityTree[k].Process).ArgsEntry = c })
    + Cardinality({ k \in DOMAIN ProcessActivityTree :
                    Entry(ProcessActivityTree[k].Process).EnvsEntry = c })

\* C17: after Done() every args / envs cache entry has been released by the
\* dump exactly as many times as the dump retained it, one Retain per process
\* node at its creation and one Release per process node in Done, for roots
\* and descendants alike.
C17_ReleaseBalancesRetain ==
    /\ dumpDone => \A c \in CacheIds : released[c] = retained[c]
    /\ ~dumpDone => \A c \in CacheIds :
          /\ released[c] = 0
          /\ retained[c] = HeldByTree(c)

\* Done ran on a tree with a child node, and some cache entry was retained
\* by more than one node
C17_Witness ==
    /\ dumpDone
    /\ \E k \in DOMAIN ProcessActivityTree : Len(k) = 2
    /\ \E c \in CacheIds : retained[c] >= 2 /\ released[c] = retained[c]

\* ---- C18 ----------------------------------------------------------------
\* the file nodes that carry Open metadata, each with its process node
OpenedFileNodes ==
    UNION { { << k, f >> : f \in { g \in DOMAIN ProcessActivityTree[k].Files :
                                     ProcessActivityTree[k].Files[g].Open } } :
            k \in DOMAIN ProcessActivityTree }

AncestorPaths(k) ==
    [ i \in 1..(Len(k) - 1) |->
        Entry(ProcessActivityTree[SubSeq(k, 1, Len(k) - i)].Process).PathnameStr ]

FileRuleOf(k, f) ==
    [rule |-> "open", path |-> Render(f),
     process |-> Entry(ProcessActivityTree[k].Process).PathnameStr,
     ancestors |-> AncestorPaths(k)]

\* C18: the profile has exactly one file rule for every file node with Open
\* metadata, at any depth of a process node's file trie, and the rule names
\* the opened path, the owning process path and one ancestor clause per
\* ancestor process node.
C18_OneRulePerOpenedFile ==
    profile # NoProfile =>
        /\ \A n \in OpenedFileNodes :
              \E i \in DOMAIN profile :
                  profile[i].rule = "open" /\ profile[i] = FileRuleOf(n[1], n[2])
        /\ Cardinality({ i \in DOMAIN profile : profile[i].rule = "open" })
               = Cardinality(OpenedFileNodes)

\* ---- C19 ----------------------------------------------------------------
\* C19: an entry retained by N >= 1 holders and then released by them: no
\* release callback runs before the N-th release, and at the N-th release
\* onRelease and then releaseCb run, exactly once each (those that were
\* registered before that release).
C19_CallbacksAtLastRelease ==
    (~mixed /\ nRetain >= 1 /\ nRelease <= nRetain) =>
        IF nRelease < nRetain
        THEN cbLog = << >>
        ELSE cbLog = Callbacks(onRelease, cbSetAt \in 0..(nRetain - 1))

\* three holders have all released and both callbacks ran, in order
C19_Witness ==
    /\ ~mixed
    /\ nRetain = MaxHolders
    /\ nRelease = nRetain
    /\ refCount = 0
    /\ cbLog = << "onRelease", "releaseCb" >>

\* ---- C20 ----------------------------------------------------------------
Accessing(g) == goroutine[g].at \in {"write", "read", "dump"}
Modifying(g) == goroutine[g].at = "write"

\* C20: every access to the tree, the file tries and the cookie index is made
\* by the goroutine that holds the dump's mutex, so none of Insert, Snapshot,
\* Done, GenerateProfileData and the JSON dump observes or modifies the tree
\* while another one modifies it.
C20_TreeUnderMutex ==
    /\ \A g \in Goroutines : Accessing(g) => mutex = g
    /\ \A g, h \in Goroutines : (g # h /\ Modifying(g)) => ~Accessing(h)

\* ------------------------------------------------------- claims C21 - C30
\* ---- C21 ----------------------------------------------------------------
InsertStep == nEvents' = nEvents + 1 /\ lastCall'.type # "none"

\* C21: ActivityDump.Insert of a fork event returns false and leaves the
\* process tree with its file tries, the cookie index, the traced pids and
\* the counters of every event type unchanged.
C21_ForkIgnored ==
    [][(InsertStep /\ lastCall'.type = "fork") =>
          /\ lastCall'.newEntry = FALSE
          /\ UNCHANGED << ProcessActivityTree, CookiesNode, tracedPIDsMap,
                          processedCount, addedRuntimeCount, addedSnapshotCount >>]_vars

\* the fork of the traced ls (pid 104) was inserted after ls got its node
C21_Witness ==
    /\ lastCall.type = "fork"
    /\ lastCall.entry = 7
    /\ AdMatches(7)
    /\ \E k \in DOMAIN ProcessActivityTree : ProcessActivityTree[k].Process = 3
    /\ 104 \notin tracedPIDsMap

\* ---- C22 ----------------------------------------------------------------
Calls(call) == { n \in 1..Len(hlog) : hlog[n] = call }

\* C22: DequeueExited is called exactly once for each handled event: a
\* record that was dispatched to the handler has, when handleEvent returns,
\* exactly one DequeueExited call, made after the dispatch to the handler
\* and the monitor returned; a record that was dropped or handled without
\* dispatch has none.
C22_DequeueOncePerDispatch ==
    /\ Cardinality(Calls("DequeueExited")) <= Cardinality(Calls("HandleEvent"))
    /\ Cardinality(Calls("HandleEvent")) <= 1
    /\ \A i \in Calls("DequeueExited") :
          \A j \in Calls("HandleEvent") \cup Calls("ProcessEvent") : j < i
    /\ Returned =>
          Cardinality(Calls("DequeueExited")) = Cardinality(Calls("HandleEvent"))

\* an exit record was dispatched, then DequeueExited ran, then the deferred
\* DeleteEntry
C22_Witness ==
    /\ Returned /\ rec.typ = "exit"
    /\ Cardinality(Calls("HandleEvent")) = 1
    /\ Cardinality(Calls("DequeueExited")) = 1
    /\ hlog[Len(hlog)] = "DeleteEntry"

\* ---- C23 ----------------------------------------------------------------
Before(first, then) ==
    \A i \in Calls(then) : \E j \in Calls(first) : j < i

\* C23: when an exec record is handled, the user / group / container context
\* of the new process cache entry is resolved (or the resolution has failed)
\* before AddExecEntry makes the entry visible to lookups; when a fork record
\* is handled, the boot time correction is applied before AddForkEntry
\* publishes the entry.
C23_ResolveBeforePublish ==
    /\ Before("ResolveNewProcessCacheEntryContext", "AddExecEntry")
    /\ Before("ApplyBootTime", "AddForkEntry")
    /\ (InLog("HandleEvent") /\ rec.typ = "exec" /\ rec.fail = "none")
            => InLog("AddExecEntry")
    /\ (InLog("HandleEvent") /\ rec.typ = "fork" /\ rec.fail = "none")
            => InLog("AddForkEntry")

\* an exec record was handled to the end and its entry is in the resolver
C23_Witness ==
    /\ Returned /\ rec.typ = "exec" /\ rec.fail = "none"
    /\ InLog("ResolveNewProcessCacheEntryContext") /\ InLog("AddExecEntry")
    /\ procState[rec.pid] = "executed"

C25_NoForkOnlyNode ==
    \A k \in DOMAIN ProcessActivityTree :
        ~Entry(ProcessActivityTree[k].Process).IsFork

C27_ReleaseAtZeroIsNoOp ==
    [][(nRelease' = nRelease + 1 /\ refCount = 0) =>
            (refCount' = 0 /\ cbLog' = cbLog)]_vars

\* ---- C28 ----------------------------------------------------------------
\* a step in which the flush of caller i attempts a deletion: its list
\* changes or, with no other flush deleting, a step that is not the discarder
\* handler's records a failure
AttemptStep(i) ==
    /\ Deleting(i)
    /\ \/ discardedInodes'[i] # discardedInodes[i]
       \/ discardedPids'[i] # discardedPids[i]
       \/ /\ clean /\ ~clean' /\ dpc' = dpc
          /\ \A j \in Callers : j # i => ~Deleting(j)

\* caller i has enumerated keys that its flush has not attempted yet
KeysLeft(i) == discardedInodes[i] # {} \/ discardedPids[i] # {}

\* the call of caller i is past its deletions
PastDeletions(i) ==
    fpc[i] \in {"unfreeze", "unfreezePut", "done"} /\ gpc[i] # "run"

\* C28: the flush is best-effort per key: each deletion attempt takes exactly
\* one enumerated key off the list whether the deletion succeeded or failed,
\* so a failed key is never attempted again; the other enumerated keys stay
\* on the list until their own attempt, the deletions end only when the list
\* is empty, and the call then clears the flushing flag whatever has failed.
C28_BestEffortPerKey ==
    [][\A i \in Callers :
        /\ AttemptStep(i) =>
            /\ discardedInodes'[i] \subseteq discardedInodes[i]
            /\ discardedPids'[i] \subseteq discardedPids[i]
            /\ Cardinality(discardedInodes[i] \ discardedInodes'[i])
                 + Cardinality(discardedPids[i] \ discardedPids'[i]) = 1
            /\ KeysLeft(i)' => Deleting(i)'
            /\ (~KeysLeft(i)' /\ fpc[i] = "flush") => fpc'[i] = "unfreeze"
        /\ (fpc[i] = "unfreeze" /\ fpc'[i] # "unfreeze") =>
            (flushingDiscarders' = 0 /\ fpc'[i] = "unfreezePut")
        /\ KeysLeft(i)' => ~PastDeletions(i)']_vars

\* an inline flush goes on after a failed deletion: no other call has started
\* and the only discarder handler that had passed the flag check before the
\* flush has not put its key yet, so the inode discarder still in the table
\* is one whose deletion failed, and the enumerated pid discarders are still
\* to be attempted
C28_Witness ==
    \E i \in Callers :
        /\ fpc[i] = "flush"
        /\ casSaw[i] = 0
        /\ \A j \in Callers : j # i => fpc[j] = "idle"
        /\ dpc = "handler"
        /\ ~clean
        /\ discardedInodes[i] = {}
        /\ inodeDiscarders # {}
        /\ discardedPids[i] # {}

\* ---- C29 ----------------------------------------------------------------
\* the terminal (open-enriched) file nodes of the dump, one per process node
\* and opened path
OpenEntries ==
    UNION { { << k, f >> : f \in { g \in DOMAIN ProcessActivityTree[k].Files :
                                    ProcessActivityTree[k].Files[g].Open } } :
            k \in DOMAIN ProcessActivityTree }

\* a step of Snapshot
SnapshotStep == nEvents' = nEvents + 1 /\ lastCall' = NoCall

\* C29: whatever runtime Insert calls came before it, a Snapshot leaves one
\* terminal node per path it opens for a process node and counts every entry
\* that is new with it exactly once, in the added-at-snapshot open counter and
\* not in the added-at-runtime one: an entry a runtime Insert had opened
\* before is not counted again, an entry opened first by the Snapshot is.
C29_CountedOnce ==
    [][SnapshotStep =>
        /\ OpenEntries \subseteq OpenEntries'
        /\ addedSnapshotCount'["open"] - addedSnapshotCount["open"]
              = Cardinality(OpenEntries' \ OpenEntries)
        /\ addedRuntimeCount'["open"] = addedRuntimeCount["open"]]_vars

\* ---- C30 ----------------------------------------------------------------
\* the file nodes of the dump, one per process node and trie key
AllFileNodes ==
    UNION { { << k, f >> : f \in DOMAIN ProcessActivityTree[k].Files } :
            k \in DOMAIN ProcessActivityTree }

\* the Insert call of this step found or created a process activity node
InsertFound == lastFind'.called /\ lastFind'.node # NilNode

\* the Insert call of this step created the node of the event's process
InsertCreated == InsertFound /\ lastFind'.node \notin DOMAIN ProcessActivityTree

\* processedCount[T] increases by one for a non-fork event of a traced type T
\* with a process activity node, nothing else in processedCount changes
ProcessedCounted ==
    processedCount' =
        IF lastCall'.type # "fork" /\ lastCall'.type \in tracedEventTypes /\ InsertFound
        THEN [processedCount EXCEPT ![lastCall'.type] = @ + 1]
        ELSE processedCount

\* Insert returns true only if a new file node was created
TrueOnlyIfNewFileNode ==
    lastCall'.newEntry => (AllFileNodes' \ AllFileNodes) # {}

\* C30 as stated: for every Insert call, processedCount[T] increases by one
\* when the event is a non-fork event of a traced type T with a process
\* activity node and by zero otherwise, addedRuntimeCount[T] increases by one
\* if and only if Insert returns true, and Insert returns true only if a new
\* file node was created.
C30_Original ==
    [][InsertStep =>
        /\ ProcessedCounted
        /\ addedRuntimeCount'[lastCall'.type] - addedRuntimeCount[lastCall'.type]
              = (IF lastCall'.newEntry THEN 1 ELSE 0)
        /\ TrueOnlyIfNewFileNode]_vars

\* C30 amended: the same for processedCount and for Insert's result; the call
\* adds one to addedRuntimeCount[T] if and only if it returns true, and one to
\* addedRuntimeCount[exec] if and only if it creates the process activity node
\* of the event's process, whatever the event's type and Insert's result;
\* addedRuntimeCount does not change otherwise.
C30_Amended ==
    [][InsertStep =>
        /\ ProcessedCounted
        /\ addedRuntimeCount' =
              [t \in DumpEventTypes |->
                  addedRuntimeCount[t]
                    + (IF t = lastCall'.type /\ lastCall'.newEntry THEN 1 ELSE 0)
                    + (IF t = "exec" /\ InsertCreated THEN 1 ELSE 0)]
        /\ TrueOnlyIfNewFileNode]_vars

\* an exec event has just created the node of its process: Insert returned
\* false and the exec counter holds that node, after an open event that was
\* processed and added a file node
C30_Witness ==
    /\ lastCall.type = "exec"
    /\ ~lastCall.newEntry
    /\ lastFind.node # NilNode
    /\ addedRuntimeCount["exec"] = Cardinality(DOMAIN ProcessActivityTree)
    /\ addedRuntimeCount["exec"] >= 2
    /\ processedCount["open"] >= 1
    /\ addedRuntimeCount["open"] >= 1
    /\ processedCount["exec"] = 0

\* ---- C31 ----------------------------------------------------------------
\* the selectors configured on a dump
Configured(ad) == { f \in {"ContainerID", "Comm"} : ad[f] # "" }

\* C31: ad.Matches(entry) is true if and only if the entry is non-nil and
\* every selector configured on the dump equals the entry's value: both when
\* both are configured, the one that is when only one is, and every non-nil
\* entry matches a dump that has neither.
C31_MatchesIffAllSelectors ==
    sel.called =>
        (sel.matches <=>
            /\ ~sel.entry.nil
            /\ \A f \in Configured(sel.ad) : sel.ad[f] = sel.entry[f])

\* Matches has rejected an entry that has the comm of a dump with both
\* selectors and another container ID
C31_Witness ==
    /\ sel.called
    /\ ~sel.matches
    /\ ~sel.entry.nil
    /\ Configured(sel.ad) = {"ContainerID", "Comm"}
    /\ sel.ad.Comm = sel.entry.Comm
    /\ sel.ad.ContainerID # sel.entry.ContainerID

\* ---- C32 ----------------------------------------------------------------
\* the process cache entry of a pid is in the cache and has not exited
LiveEntry(p) == procState[p] \in {"forked", "executed"}

\* the calls made so far for an exit record are in the order dispatch to the
\* handler and the monitor, DequeueExited, DeleteEntry; an exit record of a
\* kernel thread has neither a dispatch nor a DeleteEntry
ExitCallOrder ==
    rec.typ = "exit" =>
        /\ Before("ProcessEvent", "DequeueExited")
        /\ Before("DequeueExited", "DeleteEntry")
        /\ \A i \in Calls("HandleEvent") : \A j \in Calls("DeleteEntry") : i < j
        /\ Cardinality(Calls("DeleteEntry")) <= 1
        /\ (Returned /\ InLog("HandleEvent")) =>
              hlog[Len(hlog)] = "DeleteEntry" /\ procState[rec.pid] # "forked"
                  /\ procState[rec.pid] # "executed"
        /\ rec.kthread => ~InLog("HandleEvent") /\ ~InLog("DeleteEntry")

\* C32: when an exit record is handled the order is dispatch to the handler
\* and the monitor, then DequeueExited, then DeleteEntry for the exiting pid:
\* the live entry of the exiting process stays as it is in the cache during
\* the whole handling, DequeueExited included, and is marked exited and queued
\* for release only by the DeleteEntry that runs when handleEvent returns; an
\* exit record of a kernel thread is neither dispatched nor passed to
\* DeleteEntry and leaves the entry alone.
C32_ExitOrder ==
    [][/\ ExitCallOrder'
       /\ (rec.typ = "exit" /\ rec' = rec /\ LiveEntry(rec.pid)) =>
            \/ procState'[rec.pid] = procState[rec.pid]
            \/ /\ ~rec.kthread /\ hpc = "return" /\ hpc' = "idle"
               /\ InLog("DequeueExited")
               /\ procState'[rec.pid] = "exited"]_vars

\* the exit record of a process with a live entry was handled to the end: it
\* was dispatched, DequeueExited ran, and the DeleteEntry after it queued the
\* entry
C32_Witness ==
    /\ Returned /\ rec.typ = "exit" /\ ~rec.kthread
    /\ Len(hlog) >= 4
    /\ SubSeq(hlog, Len(hlog) - 3, Len(hlog))
          = << "HandleEvent", "ProcessEvent", "DequeueExited", "DeleteEntry" >>
    /\ procState[rec.pid] = "exited"

\* ---- C33 ----------------------------------------------------------------
\* C33: after FindOrCreateProcessActivityNode has returned a node for an
\* entry with a cookie, the cookie index maps the entry's cookie to that node
\* and the entry's pid is in the traced-pid table, whether the node was
\* created by the call or an existing root or child node was matched.
C33_IndexedAndTraced ==
    (lastFind.called /\ lastFind.node # NilNode /\ Entry(lastFind.entry).Cookie > 0) =>
        /\ Entry(lastFind.entry).Cookie \in DOMAIN CookiesNode
        /\ CookiesNode[Entry(lastFind.entry).Cookie] = lastFind.node
        /\ Entry(lastFind.entry).Pid \in tracedPIDsMap

\* ---- C34 ----------------------------------------------------------------
\* what pan.Matches compares when the arguments are not differentiated
MatchKey(e) == << Entry(e).Comm, Entry(e).PathnameStr, Entry(e).Credentials >>

\* two nodes with the same parent, or two roots
Siblings(k1, k2) ==
    /\ k1 # k2
    /\ Len(k1) = Len(k2)
    /\ SubSeq(k1, 1, Len(k1) - 1) = SubSeq(k2, 1, Len(k2) - 1)

\* the node is a root or is reached from a root through nodes of the tree
ReachableFromRoots(k) ==
    /\ Len(k) >= 1
    /\ \A n \in 1..Len(k) : SubSeq(k, 1, n) \in DOMAIN ProcessActivityTree

\* C34: in a dump that does not differentiate arguments no two roots and no
\* two children of one node have the same comm, executable path and
\* credentials, and every node the cookie index refers to is reachable from
\* the roots of the dump.
C34_NoDuplicateSiblings ==
    ~DifferentiateArgs =>
        /\ \A k1, k2 \in DOMAIN ProcessActivityTree :
              Siblings(k1, k2) =>
                  MatchKey(ProcessActivityTree[k1].Process)
                      # MatchKey(ProcessActivityTree[k2].Process)
        /\ \A c \in DOMAIN CookiesNode : ReachableFromRoots(CookiesNode[c])

\* a second ls with other arguments was matched to the node of the first
\* instead of getting a node of its own, in a tree that has an indexed child
C34_Witness ==
    /\ ~DifferentiateArgs
    /\ lastFind.called /\ lastFind.node # NilNode
    /\ ProcessActivityTree[lastFind.node].Process # lastFind.entry
    /\ Entry(ProcessActivityTree[lastFind.node].Process).Argv
          # Entry(lastFind.entry).Argv
    /\ \E c \in DOMAIN CookiesNode : Len(CookiesNode[c]) = 2

\* ---- C35 ----------------------------------------------------------------
\* C35: a FindOrCreateProcessActivityNode call that returns nil, for a nil
\* entry or for an entry that is out of the tree with all its non-fork
\* ancestors and does not match the selector, changes neither the process
\* tree nor the cookie index nor the exec added counters nor the traced-pid
\* table, the recursive walk over the ancestors included.
C35_NilLeavesDumpAlone ==
    [][(InsertStep /\ lastFind'.called /\ lastFind'.node = NilNode) =>
        /\ ProcessActivityTree' = ProcessActivityTree
        /\ CookiesNode' = CookiesNode
        /\ addedRuntimeCount'["exec"] = addedRuntimeCount["exec"]
        /\ addedSnapshotCount'["exec"] = addedSnapshotCount["exec"]
        /\ tracedPIDsMap' = tracedPIDsMap]_vars

\* the call for the fork of init in pid 100 has walked to init and returned
\* nil while the dump holds nodes, an index entry and traced pids
C35_Witness ==
    /\ lastFind.called /\ lastFind.node = NilNode
    /\ lastFind.entry = 2
    /\ DOMAIN ProcessActivityTree # {}
    /\ DOMAIN CookiesNode # {}
    /\ tracedPIDsMap # {}

\* ---- C36 ----------------------------------------------------------------
\* C36: for a setuid, setgid or capset record the credentials of the live
\* entry of the pid are updated only after the dispatch to the handler and
\* the monitor: the entry keeps the credentials it had, which are those of
\* the process context of the dispatched event, during the whole handling,
\* and the update is applied when handleEvent returns, before the next record
\* is handled.
C36_CredsAfterDispatch ==
    [][(rec.typ \in CredTypes /\ rec' = rec /\ LiveEntry(rec.pid)) =>
        /\ \A i \in Calls(CredUpdate(rec.typ))' : \A j \in Calls("ProcessEvent")' : j < i
        /\ \/ creds'[rec.pid] = creds[rec.pid] /\ (hpc' = "idle" => ~InLog("HandleEvent"))
           \/ /\ hpc = "return" /\ hpc' = "idle"
              /\ InLog("HandleEvent") /\ InLog("ProcessEvent")
              /\ creds'[rec.pid] = CredUpdate(rec.typ)
              /\ hlog'[Len(hlog')] = CredUpdate(rec.typ)]_vars

\* a setgid record of a forked process was handled to the end: the entry had
\* no credentials update until the dispatch and DequeueExited were over
C36_Witness ==
    /\ Returned /\ rec.typ = "setgid"
    /\ LiveEntry(rec.pid)
    /\ Len(hlog) >= 4
    /\ SubSeq(hlog, Len(hlog) - 3, Len(hlog))
          = << "HandleEvent", "ProcessEvent", "DequeueExited", "UpdateGID" >>
    /\ creds[rec.pid] = "UpdateGID"

\* ---------------------------------------------------------------- C37
\* calls of one name in the log of SelectProbes
SpCalls(name) == {i \in 1..Len(sp.log) : sp.log[i][1] = name}
SpOk(name) == \E i \in SpCalls(name) : sp.log[i][2]
UnknownInRuleSet == \E eventName \in sp.rs : eventName # "*" /\ ParseEvalEventType(eventName) = 0

\* on every return path after a successful Pause, Resume has been called
\* exactly once, as the last call; an unknown event type is an error with
\* no Pause and no write of enabled_events
ResumedOnce ==
    sp.pc = "returned" =>
        /\ SpOk("Pause") =>
              /\ Cardinality(SpCalls("Resume")) = 1
              /\ sp.log[Len(sp.log)][1] = "Resume"
        /\ (SpOk("Map") /\ UnknownInRuleSet) =>
              /\ sp.err # NoErr
              /\ SpCalls("Pause") = {} /\ SpCalls("Put") = {}
              /\ sp.enabled = NoWord /\ ~sp.paused

ReturnedError == apc = "idle" /\ aret = "error"
\* the last call of the invocation, the one that failed
FailedCall == alog[Len(alog)][1]

\* C38: when SetApprovers has returned the error of an Apply or of a Remove,
\* the approvers recorded for the event type are those recorded before the
\* call, and after a failed Apply no Remove has been called
C38_ErrorKeepsRecorded ==
    ReturnedError =>
        /\ Recorded(aType) = aPrev
        /\ FailedCall = "Apply" => \A i \in 1..Len(alog) : alog[i][1] # "Remove"

\* a call that failed in a Remove after applying a different set, with
\* approvers recorded before it
C38_Witness ==
    /\ ReturnedError
    /\ FailedCall = "Remove"
    /\ aPrev # {} /\ newApprovers # {} /\ newApprovers # aPrev
    /\ Recorded(aType) = aPrev
    /\ \E i \in 1..Len(alog) : alog[i][1] = "Apply"

\* ---------------------------------------------------------------- C39
\* the largest timeout timestamp of the dumps that have called for a pid
MaxRegistered(pid) ==
    CHOOSE m \in {tp.deadline[d] : d \in tp.registered[pid]} :
        \A d \in tp.registered[pid] : tp.deadline[d] <= m

\* the last call did not lower the stored timeout, the stored timeout of a
\* pid is the maximum over the dumps that called for it, and it is at least
\* the timeout timestamp of the dump that called last
NeverDecreasesAndMax ==
    /\ tp.last.d # 0 => tp.stored[tp.last.pid] >= tp.last.before
    /\ \A pid \in TpPids :
          tp.registered[pid] # {} => tp.stored[pid] = MaxRegistered(pid)
    /\ tp.last.d # 0 => tp.stored[tp.last.pid] >= tp.deadline[tp.last.d]

InFlight(c) == IF stats.spc = "count" /\ Head(stats.toSend) = c THEN stats.value ELSE 0

\* C40: under every interleaving of Insert with SendStats, as long as the
\* statsd client has returned no error, each counter's increments are all
\* accounted for once: the values handed to the client, the value swapped
\* out and about to be handed over and the current value add up to the
\* number of increments made, so that whenever SendStats is not between a
\* swap and its Count the handed values plus the counter equal the increments
C40_NoLostNoDouble ==
    ~stats.clientFailed =>
        \A c \in StatCounters :
            /\ stats.handed[c] + InFlight(c) + stats.count[c] = stats.made[c]
            /\ stats.spc # "count" => stats.handed[c] + stats.count[c] = stats.made[c]

\* an increment has landed on a counter between the swap of SendStats and
\* its Count, after an earlier value of the counter was handed over
C40_Witness ==
    /\ ~stats.clientFailed
    /\ stats.spc = "count"
    /\ LET c == Head(stats.toSend) IN
          stats.value > 0 /\ stats.count[c] > 0 /\ stats.handed[c] > 0

====
